---- MODULE Spec2Model ----
(***************************************************************************)
(* Verification model of the Kowabunga Terraform provider                  *)
(* (internal/provider): the provider-wide mutex, the CRUD and data-source  *)
(* handlers as sequences of remote calls, the name-or-ID resolvers and the *)
(* field validators.                                                       *)
(*                                                                         *)
(* The remote platform is the environment: it holds, per entity kind, a    *)
(* list of entities (identifier, name, parent) and answers every call of   *)
(* the generated client according to that content, unless the transport    *)
(* fails or the context's deadline has expired.                            *)
(***************************************************************************)
EXTENDS Integers, Naturals, Sequences, FiniteSets, TLC

VARIABLES
    remote,     \* [kind -> sequence of entities, in the order the list call returns them]
    dns,        \* the domains for which the name service of the host answers an MX lookup
    mutex,      \* KowabungaProviderData.Mutex: the process holding it, or NoProc
    proc,       \* [Procs -> the invocation of one handler: request, position, locals, response]
    faults,     \* number of transport failures injected so far
    submit,     \* [Procs -> the requests the framework may invoke on that goroutine]
    value,      \* validator harness: the configuration value under validation
    verdict     \* validator harness: "" before validation, else "ok" or the error summary

vars == <<remote, dns, mutex, proc, faults, submit, value, verdict>>

----------------------------------------------------------------------------
(* Bounds *)

NumProcs == 2
MaxEntities == 3
MaxFaults == 1

Procs == 1..NumProcs
NoProc == 0

----------------------------------------------------------------------------
(* Program constants *)

\* minutes
DefaultCreateTimeout == 30
DefaultDeleteTimeout == 5
DefaultReadTimeout == 2
DefaultUpdateTimeout == 5

ErrorGeneric == "Kowabunga Error"

ErrorUnknown(kind) ==
    CASE kind = "kawaii"   -> "Unknown kawaii instance"
      [] kind = "nfs"      -> "Unknown NFS storage"
      [] kind = "project"  -> "Unknown project"
      [] kind = "region"   -> "Unknown region"
      [] kind = "pool"     -> "Unknown storage pool"
      [] kind = "subnet"   -> "Unknown subnet"
      [] kind = "vnet"     -> "Unknown virtual network"
      [] kind = "template" -> "Unknown volume template"
      [] kind = "zone"     -> "Unknown zone"

----------------------------------------------------------------------------
(* The remote platform, as seen through the generated client *)

NoEntity == [id |-> "", name |-> "", parent |-> ""]

\* the kind whose identifier scopes a nested list call
ParentKind(kind) ==
    CASE kind = "template" -> "pool"
      [] kind = "zone"     -> "region"
      [] OTHER             -> ""

Exists(kind, x) == \E i \in 1..Len(remote[kind]) : remote[kind][i].id = x

Lookup(kind, x) ==
    LET i == CHOOSE i \in 1..Len(remote[kind]) : remote[kind][i].id = x
    IN  remote[kind][i]

IdsOf(s) == [i \in 1..Len(s) |-> s[i].id]

ErrNotFound == "404 Not Found"
ErrTransport == "connection refused"
ErrDeadline == "context deadline exceeded"

Ok(ent, ids) == [ok |-> TRUE, ent |-> ent, ids |-> ids, msg |-> ""]
Err(msg) == [ok |-> FALSE, ent |-> NoEntity, ids |-> <<>>, msg |-> msg]

NoCall == [api |-> "", kind |-> "", arg |-> "", ref |-> "", parent |-> "", deadline |-> 0,
           inResolver |-> FALSE]

\* what the platform answers to a call that reaches it
RemoteAnswer(c) ==
    CASE c.api = "Read" ->
            IF Exists(c.kind, c.arg) THEN Ok(Lookup(c.kind, c.arg), <<>>) ELSE Err(ErrNotFound)
      [] c.api = "List" ->
            Ok(NoEntity, IdsOf(remote[c.kind]))
      [] c.api = "ListOf" ->
            IF Exists(ParentKind(c.kind), c.arg)
            THEN Ok(NoEntity, IdsOf(SelectSeq(remote[c.kind], LAMBDA e : e.parent = c.arg)))
            ELSE Err(ErrNotFound)
      [] c.api = "Create" ->
            Ok([id |-> "new", name |-> "", parent |-> c.arg], <<>>)
      [] c.api \in {"Update", "Delete"} ->
            IF Exists(c.kind, c.arg) THEN Ok(Lookup(c.kind, c.arg), <<>>) ELSE Err(ErrNotFound)
      [] c.api \in {"ReadIn", "UpdateIn", "DeleteIn"} ->
            IF Exists(c.ref, c.parent) /\ Exists(c.kind, c.arg) /\ Lookup(c.kind, c.arg).parent = c.parent
            THEN Ok(Lookup(c.kind, c.arg), <<>>)
            ELSE Err(ErrNotFound)
      [] c.api \in {"SetDefault", "SetApiToken", "ResetPassword"} ->
            Ok(NoEntity, <<>>)

----------------------------------------------------------------------------
(* Name-or-ID resolvers: getRegionID, getZoneID, getVNetID, getSubnetID,   *)
(* getProjectID, getPoolID, getNfsID, getTemplateID, getKawaiiID           *)

NoFrame == [phase |-> "none", kind |-> "", id |-> "", poolId |-> "",
            listed |-> <<>>, i |-> 0, out |-> "", err |-> "", base |-> 0]

\* entry of getXID(ctx, data, id) and of getTemplateID(ctx, data, id, poolId)
getID(kind, id, poolId) ==
    [phase |-> "direct", kind |-> kind, id |-> id, poolId |-> poolId,
     listed |-> <<>>, i |-> 0, out |-> "", err |-> "", base |-> 0]

\* variant: the template fall-back lists every template, whatever its pool
ResolverListCallAll(f) == [api |-> "List", kind |-> f.kind, arg |-> ""]

\* the list call of the fall-back path
ResolverListCall(f) ==
    IF f.kind = "template"
    THEN [api |-> "ListOf", kind |-> f.kind, arg |-> f.poolId]
    ELSE [api |-> "List", kind |-> f.kind, arg |-> ""]

\* the remote call the resolver issues next
ResolverCall(f) ==
    CASE f.phase = "direct" -> [api |-> "Read", kind |-> f.kind, arg |-> f.id]
      [] f.phase = "list"   -> ResolverListCall(f)
      [] f.phase = "scan"   -> [api |-> "Read", kind |-> f.kind, arg |-> f.listed[f.i]]

\* variant: the error constant of getRegionID left in a copied resolver
ResolverFailRegion(f) == [f EXCEPT !.phase = "ret", !.out = "", !.err = ErrorUnknown("region")]

ResolverFail(f) == [f EXCEPT !.phase = "ret", !.out = "", !.err = ErrorUnknown(f.kind)]

\* variant: the direct lookup's result is ignored, names are matched first
ResolverStepNameFirst(f, a) ==
    CASE f.phase = "direct" -> [f EXCEPT !.phase = "list"]
      [] f.phase = "list" ->
            IF a.ok /\ Len(a.ids) > 0
            THEN [f EXCEPT !.phase = "scan", !.listed = a.ids, !.i = 1]
            ELSE ResolverFail([f EXCEPT !.listed = a.ids])
      [] f.phase = "scan" ->
            IF a.ok /\ a.ent.name = f.id
            THEN [f EXCEPT !.phase = "ret", !.out = a.ent.id]
            ELSE IF f.i < Len(f.listed)
                 THEN [f EXCEPT !.i = f.i + 1]
                 ELSE ResolverFail(f)

\* variant: the scan does not return at the first match but reads the whole list
ResolverStepLastMatch(f, a) ==
    CASE f.phase = "direct" ->
            IF a.ok THEN [f EXCEPT !.phase = "ret", !.out = a.ent.id]
                    ELSE [f EXCEPT !.phase = "list"]
      [] f.phase = "list" ->
            IF a.ok /\ Len(a.ids) > 0
            THEN [f EXCEPT !.phase = "scan", !.listed = a.ids, !.i = 1]
            ELSE ResolverFail([f EXCEPT !.listed = a.ids])
      [] f.phase = "scan" ->
            LET g == IF a.ok /\ a.ent.name = f.id THEN [f EXCEPT !.out = a.ent.id] ELSE f IN
            IF f.i < Len(f.listed) THEN [g EXCEPT !.i = f.i + 1]
            ELSE IF g.out # "" THEN [g EXCEPT !.phase = "ret"]
            ELSE ResolverFail(g)

\* variant: a failed direct lookup is tried a second time before falling back
ResolverStepRetry(f, a) ==
    CASE f.phase = "direct" ->
            IF a.ok THEN [f EXCEPT !.phase = "ret", !.out = a.ent.id]
            ELSE IF f.i = 0 THEN [f EXCEPT !.i = 1]
            ELSE [f EXCEPT !.phase = "list"]
      [] f.phase = "list" ->
            IF a.ok /\ Len(a.ids) > 0
            THEN [f EXCEPT !.phase = "scan", !.listed = a.ids, !.i = 1]
            ELSE ResolverFail([f EXCEPT !.listed = a.ids])
      [] f.phase = "scan" ->
            IF a.ok /\ a.ent.name = f.id
            THEN [f EXCEPT !.phase = "ret", !.out = a.ent.id]
            ELSE IF f.i < Len(f.listed)
                 THEN [f EXCEPT !.i = f.i + 1]
                 ELSE ResolverFail(f)

\* the resolver's reaction to the answer a of the call it issued
ResolverStep(f, a) ==
    CASE f.phase = "direct" ->
            IF a.ok THEN [f EXCEPT !.phase = "ret", !.out = a.ent.id]
                    ELSE [f EXCEPT !.phase = "list"]
      [] f.phase = "list" ->
            IF a.ok /\ Len(a.ids) > 0
            THEN [f EXCEPT !.phase = "scan", !.listed = a.ids, !.i = 1]
            ELSE ResolverFail([f EXCEPT !.listed = a.ids])
      [] f.phase = "scan" ->
            IF a.ok /\ a.ent.name = f.id
            THEN [f EXCEPT !.phase = "ret", !.out = a.ent.id]
            ELSE IF f.i < Len(f.listed)
                 THEN [f EXCEPT !.i = f.i + 1]
                 ELSE ResolverFail(f)

----------------------------------------------------------------------------
(* Handlers: the remote calls of each handler, in program order *)

\* find a parent entity with getXID; a required parent aborts the handler on failure,
\* an optional one ("poolId, _ := getPoolID(...)") discards the error
Resolve(kind, attr, required, scope) ==
    [op |-> "resolve", kind |-> kind, attr |-> attr, required |-> required,
     scope |-> scope, api |-> "", cond |-> "", neg |-> FALSE, onErr |-> "", match |-> FALSE]

\* one call of the generated client, its argument taken from attr; the handler aborts on failure
Call(api, kind, attr) ==
    [op |-> "call", kind |-> kind, attr |-> attr, required |-> TRUE,
     scope |-> "", api |-> api, cond |-> "", neg |-> FALSE, onErr |-> "abort", match |-> FALSE]

\* a call made only when the boolean attribute cond of the plan is set (neg: is not set)
CallIf(cond, neg, api, kind, attr) == [Call(api, kind, attr) EXCEPT !.cond = cond, !.neg = neg]

\* a call on a child entity that also takes its parent: the handler passes the attribute
\* ref of its data as it stands (data.KawaiiID.ValueString())
CallIn(api, kind, ref, attr) == [Call(api, kind, attr) EXCEPT !.scope = ref]

\* a data source's list call followed by one read per listed entity
Enumerate(kind, scope, onErr, match) ==
    [op |-> "enum", kind |-> kind, attr |-> "", required |-> TRUE,
     scope |-> scope, api |-> "", cond |-> "", neg |-> FALSE, onErr |-> onErr, match |-> match]

VNetResourceCreate == << Resolve("region", "region", TRUE, ""), Call("Create", "vnet", "region") >>
VNetResourceRead == << Call("Read", "vnet", "id") >>
VNetResourceUpdate == << Call("Update", "vnet", "id") >>
VNetResourceDelete == << Call("Delete", "vnet", "id") >>
DnsRecordResourceDelete == << Call("Delete", "record", "id") >>
KomputeResourceCreate ==
    << Resolve("project", "project", TRUE, ""), Resolve("zone", "zone", TRUE, ""),
       Resolve("pool", "pool", FALSE, ""), Resolve("template", "template", FALSE, "pool"),
       Call("Create", "kompute", "project") >>
KyloResourceCreate ==
    << Resolve("project", "project", TRUE, ""), Resolve("region", "region", TRUE, ""),
       Resolve("nfs", "nfs", FALSE, ""), Call("Create", "kylo", "project") >>
RegionsDataSourceRead == << Enumerate("region", "", "continue", FALSE) >>
ZonesDataSourceRead == << Resolve("region", "region", TRUE, ""), Enumerate("zone", "region", "continue", FALSE) >>
ZoneDataSourceRead == << Enumerate("zone", "", "continue", TRUE) >>
StorageNfsResourceCreate ==
    << Resolve("region", "region", TRUE, ""), Resolve("pool", "pool", FALSE, ""),
       Call("Create", "nfs", "region"), CallIf("default", FALSE, "SetDefault", "nfs", "region") >>
AgentResourceCreate == << Call("Create", "agent", ""), Call("SetApiToken", "agent", "id") >>
UserResourceCreate ==
    << Call("Create", "user", ""), CallIf("bot", FALSE, "SetApiToken", "user", "id"),
       CallIf("bot", TRUE, "ResetPassword", "user", "id") >>
\* the last two instructions are GetSubnetData
AdapterResourceCreate ==
    << Resolve("subnet", "subnet", TRUE, ""), Call("Create", "adapter", "subnet"),
       Resolve("subnet", "subnet", TRUE, ""), Call("Read", "subnet", "subnet") >>
KawaiiIPsecConnectionResourceCreate ==
    << Resolve("kawaii", "kawaii", TRUE, ""), Call("Create", "ipsec", "kawaii") >>
KawaiiIPsecConnectionResourceRead == << CallIn("ReadIn", "ipsec", "kawaii", "id") >>
KawaiiIPsecConnectionResourceUpdate == << CallIn("UpdateIn", "ipsec", "kawaii", "id") >>
KawaiiIPsecConnectionResourceDelete == << CallIn("DeleteIn", "ipsec", "kawaii", "id") >>

Program(h) ==
    CASE h = "VNetResource.Create"        -> VNetResourceCreate
      [] h = "VNetResource.Read"          -> VNetResourceRead
      [] h = "VNetResource.Update"        -> VNetResourceUpdate
      [] h = "VNetResource.Delete"        -> VNetResourceDelete
      [] h = "DnsRecordResource.Delete"   -> DnsRecordResourceDelete
      [] h = "KomputeResource.Create"     -> KomputeResourceCreate
      [] h = "KyloResource.Create"        -> KyloResourceCreate
      [] h = "RegionsDataSource.Read"     -> RegionsDataSourceRead
      [] h = "ZonesDataSource.Read"       -> ZonesDataSourceRead
      [] h = "ZoneDataSource.Read"        -> ZoneDataSourceRead
      [] h = "StorageNfsResource.Create"  -> StorageNfsResourceCreate
      [] h = "AgentResource.Create"       -> AgentResourceCreate
      [] h = "UserResource.Create"        -> UserResourceCreate
      [] h = "AdapterResource.Create"     -> AdapterResourceCreate
      [] h = "KawaiiIPsecConnectionResource.Create" -> KawaiiIPsecConnectionResourceCreate
      [] h = "KawaiiIPsecConnectionResource.Read"   -> KawaiiIPsecConnectionResourceRead
      [] h = "KawaiiIPsecConnectionResource.Update" -> KawaiiIPsecConnectionResourceUpdate
      [] h = "KawaiiIPsecConnectionResource.Delete" -> KawaiiIPsecConnectionResourceDelete

Handlers ==
    {"VNetResource.Create", "VNetResource.Read", "VNetResource.Update", "VNetResource.Delete",
     "DnsRecordResource.Delete", "KomputeResource.Create", "KyloResource.Create",
     "RegionsDataSource.Read", "ZonesDataSource.Read", "ZoneDataSource.Read"}

\* handlers with a follow-up call after their create, and the handlers of a child resource
ChildHandlers ==
    {"StorageNfsResource.Create", "AgentResource.Create", "UserResource.Create",
     "AdapterResource.Create", "KawaiiIPsecConnectionResource.Create",
     "KawaiiIPsecConnectionResource.Read", "KawaiiIPsecConnectionResource.Update",
     "KawaiiIPsecConnectionResource.Delete"}

\* the CRUD operation a handler implements
OpKind(h) ==
    CASE h \in {"VNetResource.Create", "KomputeResource.Create", "KyloResource.Create",
                "StorageNfsResource.Create", "AgentResource.Create", "UserResource.Create",
                "AdapterResource.Create", "KawaiiIPsecConnectionResource.Create"} -> "create"
      [] h \in {"VNetResource.Update", "KawaiiIPsecConnectionResource.Update"} -> "update"
      [] h \in {"VNetResource.Delete", "DnsRecordResource.Delete",
                "KawaiiIPsecConnectionResource.Delete"} -> "delete"
      [] OTHER -> "read"

IsDataSource(h) == h \in {"RegionsDataSource.Read", "ZonesDataSource.Read", "ZoneDataSource.Read"}

DefaultTimeout(kind) ==
    CASE kind = "create" -> DefaultCreateTimeout
      [] kind = "read"   -> DefaultReadTimeout
      [] kind = "update" -> DefaultUpdateTimeout
      [] kind = "delete" -> DefaultDeleteTimeout

\* data.Timeouts.Create/Read/Update/Delete(ctx, Default...): the configured value, else the default
Timeouts(kind, configured) == IF configured # 0 THEN configured ELSE DefaultTimeout(kind)

\* the deadline carried by the variable ctx that the handler passes to its remote calls
\* (0: none): a resource handler rebinds ctx to context.WithTimeout(ctx, timeout);
\* DnsRecordResource.Delete drops the derived context ("_, cancel :="); a data source
\* derives none
HandlerCtx(h, configured) ==
    IF IsDataSource(h) \/ h = "DnsRecordResource.Delete" THEN 0
    ELSE Timeouts(OpKind(h), configured)

----------------------------------------------------------------------------
(* One invocation of a handler *)

Attrs == {"project", "zone", "region", "pool", "template", "nfs", "id", "name",
          "subnet", "kawaii", "default", "bot"}

NoPlan == [a \in Attrs |-> ""]
NoState == [set |-> FALSE, id |-> "", map |-> {}]

Idle ==
    [handler |-> "", plan |-> NoPlan, timeout |-> 0, pc |-> "idle", ip |-> 0, ctx |-> 0,
     timer |-> FALSE, expired |-> FALSE, f |-> NoFrame, inflight |-> NoCall,
     ids |-> NoPlan, acc |-> {}, calls |-> <<>>, rets |-> <<>>, diags |-> <<>>,
     state |-> NoState]

\* resp.State.Set(ctx, &data)
StateSet(P) == [set |-> TRUE, id |-> P.ids["id"], map |-> P.acc]

\* variant: the diagnostic carries the summary only, not err.Error()
AbortGeneric(P, msg) == [P EXCEPT !.pc = "exit", !.f = NoFrame, !.diags = Append(@, ErrorGeneric)]

\* errorCreateGeneric, errorReadGeneric, errorUpdateGeneric, errorDeleteGeneric,
\* errorDataSourceReadGeneric, each followed by return
Abort(P, msg) == [P EXCEPT !.pc = "exit", !.f = NoFrame, !.diags = Append(@, msg)]

\* the value of attribute attr after the resolvers and the create call ("": no attribute)
Arg(P, attr) == IF attr = "" THEN "" ELSE P.ids[attr]

\* whether the handler's "if data.X.ValueBool()" lets instruction ins run
Taken(P, ins) == ins.cond = "" \/ ((P.plan[ins.cond] # "") # ins.neg)

RECURSIVE Enter(_)
\* position the handler on instruction P.ip; past the last one it writes the state and returns
Enter(P) ==
    LET prog == Program(P.handler) IN
    IF P.ip > Len(prog)
    THEN [P EXCEPT !.pc = "exit", !.f = NoFrame, !.state = StateSet(P)]
    ELSE LET ins == prog[P.ip]
             scope == IF ins.scope = "" THEN "" ELSE P.ids[ins.scope]
         IN  CASE ins.op = "resolve" ->
                    [P EXCEPT !.f = [getID(ins.kind, P.plan[ins.attr], scope)
                                        EXCEPT !.base = Len(P.calls)]]
               [] ins.op = "call" /\ ~Taken(P, ins) -> Enter([P EXCEPT !.ip = P.ip + 1])
               [] ins.op = "call" /\ Taken(P, ins) ->
                    [P EXCEPT !.f = [NoFrame EXCEPT !.phase = "call", !.kind = ins.kind,
                                                    !.id = Arg(P, ins.attr)]]
               [] ins.op = "enum" ->
                    [P EXCEPT !.f = [NoFrame EXCEPT !.phase = "dslist", !.kind = ins.kind,
                                                    !.id = P.plan["name"], !.poolId = scope]]

InResolver(P) == P.f.phase \in {"direct", "list", "scan"}

\* the call of the generated client that the handler issues next, under its ctx
PendingCall(P) ==
    LET ins == Program(P.handler)[P.ip]
        f == P.f
        c == CASE InResolver(P) -> ResolverCall(f)
               [] f.phase = "call" -> [api |-> ins.api, kind |-> f.kind, arg |-> f.id]
               [] f.phase = "dslist" ->
                    IF ins.scope = "" THEN [api |-> "List", kind |-> f.kind, arg |-> ""]
                    ELSE [api |-> "ListOf", kind |-> f.kind, arg |-> f.poolId]
               [] f.phase = "dsscan" -> [api |-> "Read", kind |-> f.kind, arg |-> f.listed[f.i]]
        ref == IF InResolver(P) \/ ins.op # "call" THEN ""
               ELSE IF ins.scope # "" THEN ins.scope
               ELSE IF ins.api = "Create" THEN ins.attr ELSE ""
        parent == IF ref = "" THEN ""
                  ELSE IF ins.scope # "" THEN P.plan[ins.scope] ELSE f.id
    IN  [api |-> c.api, kind |-> c.kind, arg |-> c.arg, ref |-> ref, parent |-> parent,
         deadline |-> P.ctx, inResolver |-> InResolver(P)]

\* the handler's code after a resolver has returned
AfterResolve(P) ==
    LET ins == Program(P.handler)[P.ip]
        Q == [P EXCEPT !.rets = Append(@, [kind |-> P.f.kind, id |-> P.f.id,
                                           poolId |-> P.f.poolId, out |-> P.f.out,
                                           err |-> P.f.err, required |-> ins.required,
                                           from |-> P.f.base, at |-> Len(P.calls)])]
    IN  IF P.f.err # "" /\ ins.required
        THEN Abort(Q, P.f.err)
        ELSE Enter([Q EXCEPT !.ids[ins.attr] = P.f.out, !.ip = P.ip + 1])

\* the next iteration of a data source's loop over the listed entities, or its end
DsNext(P) ==
    IF P.f.i < Len(P.f.listed)
    THEN [P EXCEPT !.f.i = P.f.i + 1]
    ELSE Enter([P EXCEPT !.ip = P.ip + 1])

\* the handler's code from the return of a call, with answer a, to its next call or its return
React(P, a) ==
    LET ins == Program(P.handler)[P.ip] IN
    CASE InResolver(P) ->
            LET g == ResolverStep(P.f, a) IN
            IF g.phase = "ret" THEN AfterResolve([P EXCEPT !.f = g]) ELSE [P EXCEPT !.f = g]
      [] P.f.phase = "call" ->
            IF ~a.ok THEN Abort(P, a.msg)
            ELSE Enter([P EXCEPT !.ids["id"] = IF ins.api = "Create" THEN a.ent.id ELSE @,
                                 !.ip = P.ip + 1])
      [] P.f.phase = "dslist" ->
            IF ~a.ok THEN Abort(P, a.msg)
            ELSE IF Len(a.ids) = 0 THEN Enter([P EXCEPT !.ip = P.ip + 1])
            ELSE [P EXCEPT !.f.phase = "dsscan", !.f.listed = a.ids, !.f.i = 1]
      [] P.f.phase = "dsscan" ->
            IF ~a.ok
            THEN IF ins.onErr = "abort" THEN Abort(P, a.msg) ELSE DsNext(P)
            ELSE IF ins.match
                 THEN IF a.ent.name = P.f.id
                      THEN Enter([P EXCEPT !.ids["id"] = a.ent.id, !.ip = P.ip + 1])
                      ELSE DsNext(P)
                 ELSE DsNext([P EXCEPT !.acc = @ \cup {<<a.ent.name, a.ent.id>>}])

----------------------------------------------------------------------------
(* Requests and platform content the handlers are run on *)

Ent(id, name, parent) == [id |-> id, name |-> name, parent |-> parent]

World0 ==
    [project  |-> << Ent("p1", "acme", "") >>,
     region   |-> << Ent("r1", "eu", ""), Ent("r2", "us", "") >>,
     zone     |-> << Ent("z1", "az1", "r1"), Ent("z2", "az2", "r1") >>,
     pool     |-> << Ent("sp1", "ssd", "r1") >>,
     template |-> << Ent("t1", "ubuntu", "sp1") >>,
     nfs      |-> << Ent("n1", "share", "r1") >>,
     vnet     |-> << Ent("v1", "lan", "r1") >>,
     record   |-> << Ent("d1", "www", "p1") >>,
     subnet   |-> << Ent("s1", "front", "v1") >>,
     kawaii   |-> << Ent("k1", "gw", "p1") >>,
     ipsec    |-> << Ent("i1", "tunnel", "k1") >>]

With(a, v) == [NoPlan EXCEPT ![a] = v]

Plans(h) ==
    CASE h = "VNetResource.Create" -> {With("region", r) : r \in {"r1", "us", "nope"}}
      [] h \in {"VNetResource.Read", "VNetResource.Update", "VNetResource.Delete"} ->
            {With("id", i) : i \in {"v1", "gone"}}
      [] h = "DnsRecordResource.Delete" -> {With("id", "d1")}
      [] h = "KomputeResource.Create" ->
            {[NoPlan EXCEPT !["project"] = pr, !["zone"] = "z1", !["pool"] = po, !["template"] = te] :
                pr \in {"acme", "nope"}, po \in {"ssd", "nope"}, te \in {"", "ubuntu"}}
      [] h = "KyloResource.Create" ->
            {[NoPlan EXCEPT !["project"] = "p1", !["region"] = "eu", !["nfs"] = n] :
                n \in {"share", "nope"}}
      [] h = "RegionsDataSource.Read" -> {NoPlan}
      [] h = "ZonesDataSource.Read" -> {With("region", r) : r \in {"eu", "nope"}}
      [] h = "ZoneDataSource.Read" -> {With("name", n) : n \in {"az2", "nope"}}
      [] h = "StorageNfsResource.Create" ->
            {[NoPlan EXCEPT !["region"] = r, !["pool"] = "ssd", !["default"] = d] :
                r \in {"eu", "nope"}, d \in {"", "true"}}
      [] h = "AgentResource.Create" -> {NoPlan}
      [] h = "UserResource.Create" -> {With("bot", b) : b \in {"", "true"}}
      [] h = "AdapterResource.Create" -> {With("subnet", n) : n \in {"s1", "front"}}
      [] h = "KawaiiIPsecConnectionResource.Create" -> {With("kawaii", k) : k \in {"k1", "gw"}}
      [] h \in {"KawaiiIPsecConnectionResource.Read", "KawaiiIPsecConnectionResource.Update",
                "KawaiiIPsecConnectionResource.Delete"} ->
            {[NoPlan EXCEPT !["kawaii"] = k, !["id"] = "i1"] : k \in {"k1", "gw"}}

\* the timeouts block of the configuration: 0 when unset, else minutes
ConfiguredTimeouts(h) == IF IsDataSource(h) THEN {0} ELSE {0, 1}

Request(h, plan, t) == [handler |-> h, plan |-> plan, timeout |-> t]

\* every request of the model
Requests ==
    UNION {{Request(h, plan, t) : plan \in Plans(h), t \in ConfiguredTimeouts(h)} : h \in Handlers}

\* one request per handler, for the runs with several goroutines
ConcurrentRequests ==
    {Request("VNetResource.Create", With("region", "us"), 0),
     Request("VNetResource.Read", With("id", "v1"), 0),
     Request("VNetResource.Update", With("id", "v1"), 0),
     Request("VNetResource.Delete", With("id", "v1"), 0),
     Request("DnsRecordResource.Delete", With("id", "d1"), 0),
     Request("KomputeResource.Create",
             [NoPlan EXCEPT !["project"] = "acme", !["zone"] = "z1", !["pool"] = "nope"], 0),
     Request("KyloResource.Create",
             [NoPlan EXCEPT !["project"] = "p1", !["region"] = "eu", !["nfs"] = "nope"], 0),
     Request("RegionsDataSource.Read", NoPlan, 0),
     Request("ZonesDataSource.Read", With("region", "eu"), 0),
     Request("ZoneDataSource.Read", With("name", "az2"), 0)}

----------------------------------------------------------------------------
(* Actions *)

\* the framework invokes handler h: Plan.Get / State.Get / Config.Get, Timeouts, WithTimeout
Begin(p) ==
    /\ proc[p].pc = "idle"
    /\ \E r \in submit[p] :
          proc' = [proc EXCEPT ![p] =
                     [Idle EXCEPT !.handler = r.handler, !.plan = r.plan, !.timeout = r.timeout,
                                  !.pc = "lock",
                                  !.ids = [NoPlan EXCEPT !["id"] = r.plan["id"]],
                                  !.ctx = HandlerCtx(r.handler, r.timeout),
                                  !.timer = ~IsDataSource(r.handler)]]
    /\ UNCHANGED <<remote, dns, mutex, faults, submit, value, verdict>>

\* variant: a handler that enters its body without waiting for the mutex
MutexLockNoWait(p) ==
    /\ proc[p].pc = "lock"
    /\ mutex' = p
    /\ proc' = [proc EXCEPT ![p] = Enter([proc[p] EXCEPT !.pc = "run", !.ip = 1])]
    /\ UNCHANGED <<remote, dns, faults, submit, value, verdict>>

\* r.Data.Mutex.Lock()
MutexLock(p) ==
    /\ proc[p].pc = "lock"
    /\ mutex = NoProc
    /\ mutex' = p
    /\ proc' = [proc EXCEPT ![p] = Enter([proc[p] EXCEPT !.pc = "run", !.ip = 1])]
    /\ UNCHANGED <<remote, dns, faults, submit, value, verdict>>

\* ...Execute(): the request leaves
IssueCall(p) ==
    /\ proc[p].pc = "run"
    /\ proc[p].inflight = NoCall
    /\ proc' = [proc EXCEPT ![p].inflight = PendingCall(proc[p])]
    /\ UNCHANGED <<remote, dns, mutex, faults, submit, value, verdict>>

\* ...Execute() returns: the platform's answer, a transport failure, or the abort of the
\* call when the deadline of its context has expired
ReturnCall(p) ==
    LET P == proc[p]
        c == P.inflight
        answers == IF c.deadline # 0 /\ P.expired THEN {Err(ErrDeadline)}
                   ELSE {RemoteAnswer(c)} \cup (IF faults < MaxFaults THEN {Err(ErrTransport)} ELSE {})
    IN  /\ P.pc = "run"
        /\ c # NoCall
        /\ \E a \in answers :
              /\ faults' = IF a.msg = ErrTransport THEN faults + 1 ELSE faults
              /\ proc' = [proc EXCEPT ![p] =
                            React([P EXCEPT !.inflight = NoCall,
                                            !.calls = Append(@, [api |-> c.api, kind |-> c.kind,
                                                                 arg |-> c.arg, ref |-> c.ref,
                                                                 parent |-> c.parent,
                                                                 deadline |-> c.deadline,
                                                                 inResolver |-> c.inResolver,
                                                                 res |-> a.msg])], a)]
        /\ UNCHANGED <<remote, dns, mutex, submit, value, verdict>>

ResolverIssue(p) == InResolver(proc[p]) /\ IssueCall(p)
ResolverReturn(p) == InResolver(proc[p]) /\ ReturnCall(p)
HandlerIssue(p) == ~InResolver(proc[p]) /\ IssueCall(p)
HandlerReturn(p) == ~InResolver(proc[p]) /\ ReturnCall(p)

\* variant: Unlock is not deferred, an error return leaves the mutex locked
MutexUnlockOnSuccess(p) ==
    /\ proc[p].pc = "exit"
    /\ mutex' = IF proc[p].diags = <<>> THEN NoProc ELSE mutex
    /\ proc' = [proc EXCEPT ![p] = Idle]
    /\ UNCHANGED <<remote, dns, faults, submit, value, verdict>>

\* return: the deferred r.Data.Mutex.Unlock() and cancel(); the response goes to the
\* framework and the goroutine is free for another request
MutexUnlock(p) ==
    /\ proc[p].pc = "exit"
    /\ mutex' = NoProc
    /\ proc' = [proc EXCEPT ![p] = Idle]
    /\ UNCHANGED <<remote, dns, faults, submit, value, verdict>>

\* the timer of context.WithTimeout fires
Expire(p) ==
    /\ proc[p].timer
    /\ proc[p].pc \in {"lock", "run"}
    /\ ~proc[p].expired
    /\ proc' = [proc EXCEPT ![p].expired = TRUE]
    /\ UNCHANGED <<remote, dns, mutex, faults, submit, value, verdict>>

Init ==
    /\ remote = World0
    /\ mutex = NoProc
    /\ proc = [p \in Procs |-> Idle]
    /\ faults = 0
    /\ dns = {}
    /\ submit = [p \in Procs |-> ConcurrentRequests]
    /\ value = <<>>
    /\ verdict = ""

\* one goroutine, every request of the model
InitSeq ==
    /\ remote = World0
    /\ mutex = NoProc
    /\ proc = [p \in Procs |-> Idle]
    /\ faults = 0
    /\ dns = {}
    /\ submit = [p \in Procs |-> IF p = 1 THEN Requests ELSE {}]
    /\ value = <<>>
    /\ verdict = ""

Next ==
    \E p \in Procs :
        \/ Begin(p)
        \/ MutexLock(p)
        \/ ResolverIssue(p)
        \/ ResolverReturn(p)
        \/ HandlerIssue(p)
        \/ HandlerReturn(p)
        \/ MutexUnlock(p)
        \/ Expire(p)

Spec == Init /\ [][Next]_vars

SpecSeq == InitSeq /\ [][Next]_vars

\* one goroutine, the handlers with follow-up calls and those of a child resource
ChildRequests ==
    UNION {{Request(h, plan, t) : plan \in Plans(h), t \in ConfiguredTimeouts(h)} :
              h \in ChildHandlers}

InitOps ==
    /\ remote = World0
    /\ mutex = NoProc
    /\ proc = [p \in Procs |-> Idle]
    /\ faults = 0
    /\ dns = {}
    /\ submit = [p \in Procs |-> IF p = 1 THEN ChildRequests ELSE {}]
    /\ value = <<>>
    /\ verdict = ""

SpecOps == InitOps /\ [][Next]_vars

\* several goroutines, requests that end on a success path and on error paths
LiveRequests ==
    {Request("VNetResource.Create", With("region", "us"), 0),
     Request("VNetResource.Create", With("region", "nope"), 0),
     Request("VNetResource.Read", With("id", "gone"), 0),
     Request("ZoneDataSource.Read", With("name", "az2"), 0)}

InitLive ==
    /\ remote = World0
    /\ mutex = NoProc
    /\ proc = [p \in Procs |-> Idle]
    /\ faults = 0
    /\ dns = {}
    /\ submit = [p \in Procs |-> LiveRequests]
    /\ value = <<>>
    /\ verdict = ""

\* every remote call returns and a goroutine that can run does run (weak fairness of the
\* calls and of the return); sync.Mutex hands the mutex to a goroutine that has waited
\* through repeated releases (starvation mode), hence strong fairness of Lock
Fairness ==
    \A p \in Procs :
        /\ WF_vars(IssueCall(p))
        /\ WF_vars(ReturnCall(p))
        /\ WF_vars(MutexUnlock(p))
        /\ SF_vars(MutexLock(p))

SpecLive == InitLive /\ [][Next]_vars /\ Fairness

----------------------------------------------------------------------------
(* One resolver call on arbitrary platform content *)

EntityIds == << "e1", "e2", "e3", "e4", "e5" >>
NameSet == {"e1", "web", "db"}
Inputs == {"e1", "e2", "web", "db", "zz"}
PoolIds == {"pA", "pB"}

ResolverWorlds(kind) ==
    UNION {{[i \in 1..n |-> Ent(EntityIds[i], names[i], parents[i])] :
               names \in [1..n -> NameSet],
               parents \in [1..n -> IF kind = "template" THEN PoolIds ELSE {""}]} :
           n \in 0..MaxEntities}

\* getRegionID as called by VNetResource.Create, getTemplateID as called by
\* KomputeResource.Create, entered with the mutex held
InitResolver ==
    /\ \E kind \in {"region", "template"} : \E w \in ResolverWorlds(kind) : \E id \in Inputs :
       \E poolId \in IF kind = "template" THEN PoolIds \cup {"gone"} ELSE {""} :
          /\ remote = [World0 EXCEPT ![kind] = w,
                                     !["pool"] = << Ent("pA", "fast", ""), Ent("pB", "slow", "") >>]
          /\ proc = [p \in Procs |->
                       IF p # 1 THEN Idle
                       ELSE Enter([Idle EXCEPT
                              !.handler = IF kind = "region" THEN "VNetResource.Create"
                                          ELSE "KomputeResource.Create",
                              !.plan = With(kind, id),
                              !.pc = "run",
                              !.ip = IF kind = "region" THEN 1 ELSE 4,
                              !.ctx = DefaultCreateTimeout,
                              !.timer = TRUE,
                              !.ids = With("pool", poolId)])]
    /\ mutex = 1
    /\ faults = 0
    /\ dns = {}
    /\ submit = [p \in Procs |-> {}]
    /\ value = <<>>
    /\ verdict = ""

NextResolver == \E p \in Procs : ResolverIssue(p) \/ ResolverReturn(p)

SpecResolver == InitResolver /\ [][NextResolver]_vars

----------------------------------------------------------------------------
(* Properties of the resolvers (SpecResolver) *)

\* every resolver call that has returned, with the process that made it
Returned == UNION {{<<p, k>> : k \in 1..Len(proc[p].rets)} : p \in Procs}

Ret(pk) == proc[pk[1]].rets[pk[2]]

\* the remote calls of a returned resolver call, in the order they were issued
RetCalls(pk) == SubSeq(proc[pk[1]].calls, Ret(pk).from + 1, Ret(pk).at)

\* no call of the resolution was lost by the transport or cut by the deadline
Answered(cs) == \A j \in 1..Len(cs) : cs[j].res \notin {ErrTransport, ErrDeadline}

\* the entities over which the resolver's name matching may range: all of the kind,
\* for templates those of the scoping pool (template names are unique per pool only)
InScope(r) ==
    IF r.kind = "template"
    THEN SelectSeq(remote[r.kind], LAMBDA e : e.parent = r.poolId)
    ELSE remote[r.kind]

Named(s, name) == {i \in 1..Len(s) : s[i].name = name}

\* C5: an input that is the identifier of an existing entity is returned unchanged
\* after one direct read that the platform answers, with no list call and no second
\* read, also when another entity is named like the input.
C5_IdFirst ==
    \A pk \in Returned :
        LET r == Ret(pk)
            cs == RetCalls(pk)
        IN  (Exists(r.kind, r.id) /\ Answered(SubSeq(cs, 1, 1)))
            => /\ r.out = r.id
               /\ r.err = ""
               /\ Len(cs) = 1
               /\ cs[1].api = "Read" /\ cs[1].arg = r.id

C5_Witness ==
    \E pk \in Returned :
        LET r == Ret(pk) IN
        /\ Exists(r.kind, r.id)
        /\ r.out = r.id
        /\ \E i \in 1..Len(remote[r.kind]) :
              remote[r.kind][i].name = r.id /\ remote[r.kind][i].id # r.id

\* C6: an input that is no identifier but the name of exactly one entity resolves to
\* that entity's identifier after one failed direct lookup, one list call and the reads
\* of the listed entities in list order up to and including the match, none after it
\* (every call being answered by the platform).
C6_NameFallback ==
    \A pk \in Returned :
        LET r == Ret(pk)
            cs == RetCalls(pk)
            s == InScope(r)
        IN  (~Exists(r.kind, r.id) /\ Cardinality(Named(s, r.id)) = 1 /\ Answered(cs))
            => LET m == CHOOSE i \in Named(s, r.id) : TRUE IN
               /\ r.out = s[m].id
               /\ r.err = ""
               /\ Len(cs) = m + 2
               /\ cs[1].api = "Read" /\ cs[1].arg = r.id /\ cs[1].res # ""
               /\ cs[2].api \in {"List", "ListOf"} /\ cs[2].res = ""
               /\ \A j \in 1..m : cs[2 + j].api = "Read" /\ cs[2 + j].arg = s[j].id

C6_Witness ==
    \E pk \in Returned :
        LET r == Ret(pk)
            s == InScope(r)
        IN  /\ ~Exists(r.kind, r.id)
            /\ Cardinality(Named(s, r.id)) = 1
            /\ Answered(RetCalls(pk))
            /\ \E m \in Named(s, r.id) : 1 < m /\ m < Len(s) /\ r.out = s[m].id

\* C7: an input that is neither the identifier nor the name of any entity of the kind
\* yields no identifier and the "Unknown <kind>" error of that kind.
C7_Unknown ==
    \A pk \in Returned :
        LET r == Ret(pk) IN
        (~Exists(r.kind, r.id) /\ Named(remote[r.kind], r.id) = {})
        => r.out = "" /\ r.err = ErrorUnknown(r.kind)

C7_Witness ==
    \E pk \in Returned :
        LET r == Ret(pk) IN
        /\ ~Exists(r.kind, r.id) /\ Named(remote[r.kind], r.id) = {}
        /\ r.kind = "template"
        /\ Len(RetCalls(pk)) >= 3
        /\ r.err = "Unknown volume template"

\* C8: a template identifier obtained by name matching belongs to the pool passed as
\* scoping parameter.
C8_TemplateScope ==
    \A pk \in Returned :
        LET r == Ret(pk)
            cs == RetCalls(pk)
        IN  (r.kind = "template" /\ r.out # "" /\ cs[1].res # "")
            => Lookup("template", r.out).parent = r.poolId

C8_Witness ==
    \E pk \in Returned :
        LET r == Ret(pk)
            cs == RetCalls(pk)
        IN  /\ r.kind = "template" /\ r.out # "" /\ cs[1].res # ""
            /\ \E i \in 1..Len(remote["template"]) :
                  /\ remote["template"][i].name = r.id
                  /\ remote["template"][i].parent # r.poolId

\* C9 as stated: one resolver call makes at most n+1 round trips, n the number of
\* entities of the kind.
C9_RoundTripsOriginal ==
    \A pk \in Returned : Len(RetCalls(pk)) <= Len(remote[Ret(pk).kind]) + 1

\* C9 amended: one resolver call makes at most n+2 round trips: the failed direct
\* lookup, the list call, and at most n reads during the enumeration.
C9_RoundTrips ==
    \A pk \in Returned :
        LET cs == RetCalls(pk)
            n == Len(remote[Ret(pk).kind])
        IN  /\ Len(cs) <= n + 2
            /\ Cardinality({j \in 1..Len(cs) : cs[j].api \in {"List", "ListOf"}}) <= 1
            /\ Cardinality({j \in 1..Len(cs) : cs[j].api = "Read"}) <= n + 1

C9_Witness ==
    \E pk \in Returned :
        /\ Len(remote[Ret(pk).kind]) >= 2
        /\ Len(RetCalls(pk)) = Len(remote[Ret(pk).kind]) + 2

----------------------------------------------------------------------------
(* Properties of the handlers (Spec, SpecSeq) *)

InBody(p) == proc[p].pc \in {"run", "exit"}

\* C1: at most one handler at a time is between Mutex.Lock() and Mutex.Unlock(), it is
\* the holder of the mutex, and a remote call is in flight for the holder only: calls of
\* two handlers never overlap.
C1_MutualExclusion ==
    /\ Cardinality({p \in Procs : InBody(p)}) <= 1
    /\ \A p \in Procs : InBody(p) => mutex = p
    /\ \A p \in Procs : proc[p].inflight # NoCall => mutex = p
    /\ \A p, q \in Procs :
          (p # q /\ proc[p].inflight # NoCall) => proc[q].inflight = NoCall

C1_Witness ==
    \E p, q \in Procs :
        /\ p # q
        /\ proc[p].inflight # NoCall /\ proc[p].inflight.inResolver
        /\ proc[q].pc = "lock"
        /\ IsDataSource(proc[q].handler)

\* C2 as stated: once the resolution of a parent reference has failed, or a remote call
\* made outside a resolver has failed, the handler issues no further call, writes no
\* state and returns an error diagnostic.
C2_StopsAtFailure ==
    \A p \in Procs :
        LET P == proc[p]
            stopped(at) == /\ Len(P.calls) = at
                           /\ P.inflight = NoCall
                           /\ ~P.state.set
                           /\ P.diags # <<>>
        IN  /\ \A k \in 1..Len(P.rets) : P.rets[k].err # "" => stopped(P.rets[k].at)
            /\ \A j \in 1..Len(P.calls) :
                  (~P.calls[j].inResolver /\ P.calls[j].res # "") => stopped(j)

\* C3 as stated, for the resource handlers: every remote call is issued under a context
\* whose deadline is the operation's timeout (the configured one, else the default of
\* the operation).
C3_DeadlineOnEveryCall ==
    \A p \in Procs :
        (proc[p].inflight # NoCall /\ ~IsDataSource(proc[p].handler))
        => proc[p].inflight.deadline = Timeouts(OpKind(proc[p].handler), proc[p].timeout)

Failed(P) == {j \in 1..Len(P.calls) : P.calls[j].res # ""}

\* C4 as stated: when a remote call has failed, resolver calls included, the diagnostic
\* returned carries the original message of a failed call.
C4_OriginalMessage ==
    \A p \in Procs :
        LET P == proc[p] IN
        (P.pc = "exit" /\ P.diags # <<>> /\ Failed(P) # {})
        => \E j \in Failed(P) : \E d \in 1..Len(P.diags) : P.diags[d] = P.calls[j].res

\* C4 amended: a diagnostic returned after a remote failure is the original message of
\* the failed call when that call was made outside a resolver, and the fixed
\* "Unknown <kind>" message when the failure happened inside identifier resolution;
\* every failed call outside a resolver that is not a skipped per-entity read of a data
\* source ends the handler with its message.
C4_Diagnostic ==
    \A p \in Procs :
        LET P == proc[p]
            last == P.calls[Len(P.calls)]
        IN  /\ (P.pc = "exit" /\ P.diags # <<>>)
               => IF last.inResolver
                  THEN P.diags = << ErrorUnknown(last.kind) >>
                  ELSE last.res # "" /\ P.diags = << last.res >>
            /\ \A j \in Failed(P) :
                  (~P.calls[j].inResolver /\ ~(IsDataSource(P.handler) /\ P.calls[j].api = "Read"))
                  => P.pc = "exit" /\ P.diags = << P.calls[j].res >>

C4_Witness ==
    \E p \in Procs :
        LET P == proc[p] IN
        /\ P.pc = "exit"
        /\ Len(P.calls) > 1
        /\ ~P.calls[Len(P.calls)].inResolver
        /\ P.diags = << ErrDeadline >>

----------------------------------------------------------------------------
(* Follow-up calls and child resources *)

MutatingApis ==
    {"Create", "Update", "Delete", "UpdateIn", "DeleteIn", "SetDefault", "SetApiToken",
     "ResetPassword"}

\* what identifies a request to the platform
Signature(c) == <<c.api, c.kind, c.arg, c.parent>>

\* C21: within one operation no remote call is issued again after it has failed, and each
\* mutating call (create, update, delete, set-as-default, token or password generation) is
\* sent at most once
C21_NoReissue ==
    \A p \in Procs :
        LET cs == proc[p].calls IN
        \A i, j \in 1..Len(cs) :
            (i < j /\ (cs[i].res # "" \/ cs[i].api \in MutatingApis))
                => Signature(cs[j]) # Signature(cs[i])

\* the reference ref of kind names an existing entity, by identifier or by name
Denotes(kind, ref) == \E i \in 1..Len(remote[kind]) : ref \in {remote[kind][i].id, remote[kind][i].name}

\* C22: every remote call that takes a parent-entity parameter receives the identifier of
\* the parent the user designated, whether given by identifier or by name, in the read,
\* update and delete of a child resource as in its create
C22_CanonicalParent ==
    \A p \in Procs :
        LET P == proc[p] IN
        \A i \in 1..Len(P.calls) :
            LET c == P.calls[i] IN
            (c.ref # "" /\ Denotes(c.ref, P.plan[c.ref]))
                => \E k \in 1..Len(remote[c.ref]) :
                      /\ remote[c.ref][k].id = c.parent
                      /\ P.plan[c.ref] \in {remote[c.ref][k].id, remote[c.ref][k].name}

\* a create call of the operation has succeeded: an entity exists in the remote system
Created(P) == \E i \in 1..Len(P.calls) : P.calls[i].api = "Create" /\ P.calls[i].res = ""

\* C23: an operation that has created an entity in the remote system ends with the
\* entity's identifier recorded in state, also when a follow-up call fails
C23_CreatedIsRecorded ==
    \A p \in Procs :
        (proc[p].pc = "exit" /\ Created(proc[p]))
            => (proc[p].state.set /\ proc[p].state.id # "")

\* C27: a single-entity data-source read whose requested name matches no existing entity
\* ends with an error diagnostic, never with a state whose identifier is empty
C27_NoMatchIsError ==
    \A p \in Procs :
        LET P == proc[p] IN
        (/\ P.pc = "exit"
         /\ P.handler = "ZoneDataSource.Read"
         /\ \A i \in 1..Len(remote["zone"]) : remote["zone"][i].name # P.plan["name"])
            => (P.diags # <<>> /\ ~(P.state.set /\ P.state.id = ""))

\* C29: an operation whose deadline has passed is not kept from returning by another
\* operation: it is never past its deadline while waiting for the mutex that another
\* operation holds
C29_ReturnsAtDeadline ==
    \A p \in Procs : ~(proc[p].expired /\ proc[p].pc = "lock" /\ mutex \notin {NoProc, p})

\* C30: the mutex is released on every exit path, so an operation waiting for the mutex
\* is eventually granted it, provided every remote call returns
C30_EventuallyGranted == \A p \in Procs : (proc[p].pc = "lock") ~> (mutex = p)

\* an operation waits for the mutex while its holder is returning with an error
C30_Witness ==
    \E p, q \in Procs :
        /\ p # q
        /\ proc[p].pc = "lock"
        /\ mutex = q
        /\ proc[q].pc = "exit"
        /\ proc[q].diags # <<>>

----------------------------------------------------------------------------
(* Field validators.  A configuration string is a sequence of characters.  *)

MaxPortLen == 6

PortChars == {"0", "1", "5", "9", "-", ","}

DigitVal == ("0" :> 0) @@ ("1" :> 1) @@ ("2" :> 2) @@ ("3" :> 3) @@ ("4" :> 4) @@
            ("5" :> 5) @@ ("6" :> 6) @@ ("7" :> 7) @@ ("8" :> 8) @@ ("9" :> 9)

\* byte values, the order of Go's string comparison
Code == DigitVal @@ ("," :> -4) @@ ("-" :> -3)

\* strings.Split(s, sep)
RECURSIVE Split(_, _)
Split(s, sep) ==
    IF \A i \in 1..Len(s) : s[i] # sep THEN << s >>
    ELSE LET k == CHOOSE i \in 1..Len(s) : s[i] = sep /\ \A j \in 1..(i - 1) : s[j] # sep
         IN  << SubSeq(s, 1, k - 1) >> \o Split(SubSeq(s, k + 1, Len(s)), sep)

RECURSIVE Decimal(_)
Decimal(t) ==
    IF t = <<>> THEN 0
    ELSE 10 * Decimal(SubSeq(t, 1, Len(t) - 1)) + DigitVal[t[Len(t)]]

\* a parse that ignores the bit size
ParseUintOkAnySize(t, bits) ==
    /\ t # <<>>
    /\ \A i \in 1..Len(t) : t[i] \in DOMAIN DigitVal

\* strconv.ParseUint(t, 10, bits) returns no error
ParseUintOk(t, bits) ==
    /\ t # <<>>
    /\ \A i \in 1..Len(t) : t[i] \in DOMAIN DigitVal
    /\ Decimal(t) < 2 ^ bits

\* a > b on Go strings
StrGreater(a, b) ==
    \E k \in 1..Len(a) :
        /\ \A j \in 1..(k - 1) : j <= Len(b) /\ a[j] = b[j]
        /\ k > Len(b) \/ Code[a[k]] > Code[b[k]]

ValidatorNetworkPortsErrInvalidPort == "Invalid port"
ValidatorNetworkPortsErrInvalidRange == "Invalid range"
ValidatorNetworkPortsErrTooManyEntries == "Too many entries in range"

\* the body of the loop over portList
PortEntry(port) ==
    LET portRanges == Split(port, "-") IN
    IF Len(portRanges) > 2 THEN ValidatorNetworkPortsErrTooManyEntries
    ELSE IF ~ParseUintOk(portRanges[1], 16) THEN ValidatorNetworkPortsErrInvalidPort
    ELSE IF Len(portRanges) = 2
         THEN IF ~ParseUintOk(portRanges[2], 16) THEN ValidatorNetworkPortsErrInvalidPort
              ELSE IF StrGreater(portRanges[1], portRanges[2])
                   THEN ValidatorNetworkPortsErrInvalidRange
                   ELSE ""
         ELSE ""

\* stringNetworkPortRangesValidator.ValidateString: "ok", or the summary of the first error
PortRangesValidateString(v) ==
    LET portList == Split(v, ",")
        bad == {i \in 1..Len(portList) : PortEntry(portList[i]) # ""}
    IN  IF bad = {} THEN "ok"
        ELSE PortEntry(portList[CHOOSE i \in bad : \A j \in bad : i <= j])

PortStrings == UNION {[1..n -> PortChars] : n \in 0..MaxPortLen}

InitValidator ==
    /\ remote = World0
    /\ mutex = NoProc
    /\ proc = [p \in Procs |-> Idle]
    /\ faults = 0
    /\ dns = {}
    /\ submit = [p \in Procs |-> {}]
    /\ value \in PortStrings
    /\ verdict = ""

\* the framework validates the attribute value
PortRangesValidate ==
    /\ verdict = ""
    /\ verdict' = PortRangesValidateString(value)
    /\ UNCHANGED <<remote, dns, mutex, proc, faults, submit, value>>

NextValidator == PortRangesValidate

SpecValidator == InitValidator /\ [][NextValidator]_vars

\* the entries a-b of v whose two endpoints are ports and whose left endpoint is
\* numerically greater than the right one
Descending(v) ==
    LET portList == Split(v, ",") IN
    {i \in 1..Len(portList) :
        LET r == Split(portList[i], "-") IN
        /\ Len(r) = 2
        /\ ParseUintOk(r[1], 16) /\ ParseUintOk(r[2], 16)
        /\ Decimal(r[1]) > Decimal(r[2])}

\* C10 as stated: a string with a descending range entry is rejected.
C10_DescendingRejected ==
    (verdict # "" /\ Descending(value) # {}) => verdict # "ok"

\* the number of occurrences of the character c in s
Count(s, c) == Cardinality({i \in 1..Len(s) : s[i] = c})

\* t is the decimal notation of an integer of 0..65535
IsPort(t) ==
    /\ t # <<>>
    /\ \A i \in 1..Len(t) : t[i] \in {"0", "1", "2", "3", "4", "5", "6", "7", "8", "9"}
    /\ Decimal(t) <= 65535

\* the entry is a single port, or a range a-b of two ports with a <= b
WellFormedEntry(e) ==
    \/ IsPort(e)
    \/ \E k \in 1..Len(e) :
          /\ e[k] = "-"
          /\ IsPort(SubSeq(e, 1, k - 1)) /\ IsPort(SubSeq(e, k + 1, Len(e)))
          /\ Decimal(SubSeq(e, 1, k - 1)) <= Decimal(SubSeq(e, k + 1, Len(e)))

\* C11 as stated: a comma-separated list whose entries are all single ports or
\* ascending ranges of ports is accepted, whatever the number of digits of the
\* endpoints.
C11_WellFormedAccepted ==
    (verdict # "" /\ \A i \in 1..Len(Split(value, ",")) : WellFormedEntry(Split(value, ",")[i]))
        => verdict = "ok"

\* the entry has more than one "-", or one of its endpoints is not a port
MalformedEntry(e) ==
    \/ Count(e, "-") > 1
    \/ Count(e, "-") = 0 /\ ~IsPort(e)
    \/ \E k \in 1..Len(e) :
          /\ e[k] = "-" /\ Count(e, "-") = 1
          /\ ~IsPort(SubSeq(e, 1, k - 1)) \/ ~IsPort(SubSeq(e, k + 1, Len(e)))

\* C12: a string with an entry that holds more than one "-", or an endpoint that
\* is not a decimal integer of 0..65535, is rejected.
C12_MalformedRejected ==
    (verdict # "" /\ \E i \in 1..Len(Split(value, ",")) : MalformedEntry(Split(value, ",")[i]))
        => verdict # "ok"

\* a single number above 65535 has been rejected as an invalid port
C12_Witness ==
    /\ verdict = ValidatorNetworkPortsErrInvalidPort
    /\ Len(value) = 5
    /\ \A j \in 1..Len(value) : value[j] \in DOMAIN DigitVal
    /\ Decimal(value) > 65535

----------------------------------------------------------------------------
(* The duration validator.                                                 *)

MaxDurationLen == 4

DurationChars == {"1", "5", "s", "d", "'", "-", "x"}

ValidatorDurationErrUnsupported == "Unsupported duration"

\* the characters of the class ['s'-'m'-'h'-'d']: the quote (three times as the
\* range from quote to quote, twice alone) and the letters s, m, h, d
DurationClass == {"'", "s", "m", "h", "d"}

\* regexp.MatchString("[0-9]+['s'-'m'-'h'-'d']", v): some substring of v matches
DurationMatchString(v) ==
    \E i \in 1..Len(v) : \E j \in i..(Len(v) - 1) :
        /\ \A k \in i..j : v[k] \in DOMAIN DigitVal
        /\ v[j + 1] \in DurationClass

\* stringDurationValidator.ValidateString
DurationValidateString(v) ==
    IF ~DurationMatchString(v) THEN ValidatorDurationErrUnsupported ELSE "ok"

DurationStrings == UNION {[1..n -> DurationChars] : n \in 0..MaxDurationLen}

InitDuration ==
    /\ remote = World0
    /\ mutex = NoProc
    /\ proc = [p \in Procs |-> Idle]
    /\ faults = 0
    /\ dns = {}
    /\ submit = [p \in Procs |-> {}]
    /\ value \in DurationStrings
    /\ verdict = ""

\* the framework validates the attribute value
DurationValidate ==
    /\ verdict = ""
    /\ verdict' = DurationValidateString(value)
    /\ UNCHANGED <<remote, dns, mutex, proc, faults, submit, value>>

NextDuration == DurationValidate

SpecDuration == InitDuration /\ [][NextDuration]_vars

\* the whole string is one or more decimal digits followed by one of s, m, h, d
IsDuration(v) ==
    /\ Len(v) >= 2
    /\ \A k \in 1..(Len(v) - 1) : v[k] \in {"0", "1", "2", "3", "4", "5", "6", "7", "8", "9"}
    /\ v[Len(v)] \in {"s", "m", "h", "d"}

\* C13 as stated: a string is accepted only if the whole of it is digits followed
\* by exactly one suffix character of s, m, h, d.
C13_OnlyDurations ==
    verdict = "ok" => IsDuration(value)

----------------------------------------------------------------------------
(* The network-address validator.                                          *)

MaxAddrLen == 7

AddrChars == {"1", "3", ".", ":", "/"}

ValidatorNetworkAddressErrInvalid == "Invalid IPv4 address or CIDR"

HexDigits == DOMAIN DigitVal \cup {"a", "b", "c", "d", "e", "f", "A", "B", "C", "D", "E", "F"}

\* netip.parseIPv4Fields: four fields separated by dots, each a decimal number
\* of 0..255 with no leading zero
ParseIPv4Ok(s) ==
    /\ \A i \in 1..Len(s) : s[i] \in DOMAIN DigitVal \cup {"."}
    /\ LET fields == Split(s, ".") IN
       /\ Len(fields) = 4
       /\ \A i \in 1..4 :
            /\ fields[i] # <<>>
            /\ ~(Len(fields[i]) > 1 /\ fields[i][1] = "0")
            /\ Decimal(fields[i]) <= 255

\* the length of the longest prefix of s made of hexadecimal digits
RECURSIVE HexPrefix(_)
HexPrefix(s) ==
    IF s = <<>> \/ s[1] \notin HexDigits THEN 0 ELSE 1 + HexPrefix(Tail(s))

\* the end of netip.parseIPv6: the string is used up, and the ellipsis is there
\* exactly when fewer than 16 bytes were parsed
ParseIPv6Finish(s, i, ellipsis) ==
    /\ s = <<>>
    /\ IF i < 16 THEN ellipsis >= 0 ELSE ellipsis < 0

\* the loop of netip.parseIPv6 over the colon-separated groups: s is the rest of
\* the string, i the number of bytes parsed, ellipsis the position of "::" or -1
RECURSIVE ParseIPv6Loop(_, _, _)
ParseIPv6Loop(s, i, ellipsis) ==
    IF i >= 16 THEN ParseIPv6Finish(s, i, ellipsis)
    ELSE LET off == HexPrefix(s) IN
         IF off > 4 \/ off = 0 THEN FALSE
         ELSE IF off < Len(s) /\ s[off + 1] = "."
              THEN /\ ~(ellipsis < 0 /\ i # 12)
                   /\ i + 4 <= 16
                   /\ ParseIPv4Ok(s)
                   /\ ParseIPv6Finish(<<>>, i + 4, ellipsis)
              ELSE LET r == SubSeq(s, off + 1, Len(s)) IN
                   IF r = <<>> THEN ParseIPv6Finish(r, i + 2, ellipsis)
                   ELSE IF r[1] # ":" \/ Len(r) = 1 THEN FALSE
                   ELSE LET t == Tail(r) IN
                        IF t[1] = ":"
                        THEN IF ellipsis >= 0 THEN FALSE
                             ELSE IF Tail(t) = <<>> THEN ParseIPv6Finish(<<>>, i + 2, i + 2)
                             ELSE ParseIPv6Loop(Tail(t), i + 2, i + 2)
                        ELSE ParseIPv6Loop(t, i + 2, ellipsis)

\* netip.parseIPv6 on a string without zone
ParseIPv6Ok(s) ==
    IF Len(s) >= 2 /\ s[1] = ":" /\ s[2] = ":"
    THEN IF Len(s) = 2 THEN TRUE ELSE ParseIPv6Loop(SubSeq(s, 3, Len(s)), 0, 0)
    ELSE ParseIPv6Loop(s, 0, -1)

\* net.ParseIP(s) # nil: the first dot or colon of s selects the parser
ParseIPOk(s) ==
    LET marks == {i \in 1..Len(s) : s[i] \in {".", ":"}} IN
    IF marks = {} THEN FALSE
    ELSE LET k == CHOOSE i \in marks : \A j \in marks : i <= j IN
         IF s[k] = "." THEN ParseIPv4Ok(s) ELSE ParseIPv6Ok(s)

\* net.ParseCIDR(s) returns no error: an address, the first "/", and a decimal
\* prefix length of at most 32 (IPv4) or 128 (IPv6)
ParseCIDROk(s) ==
    LET slashes == {i \in 1..Len(s) : s[i] = "/"} IN
    IF slashes = {} THEN FALSE
    ELSE LET k == CHOOSE i \in slashes : \A j \in slashes : i <= j
             addr == SubSeq(s, 1, k - 1)
             mask == SubSeq(s, k + 1, Len(s))
         IN  /\ ParseIPOk(addr)
             /\ mask # <<>>
             /\ \A i \in 1..Len(mask) : mask[i] \in DOMAIN DigitVal
             /\ Decimal(mask) <= (IF \E i \in 1..Len(addr) : addr[i] = ":" THEN 128 ELSE 32)

\* stringNetworkAddressValidator.ValidateString
NetworkAddressValidateString(v) ==
    LET valid_ip == ParseIPOk(v)
        valid_cidr == ParseCIDROk(v)
    IN  IF ~valid_ip /\ ~valid_cidr THEN ValidatorNetworkAddressErrInvalid ELSE "ok"

\* every string up to MaxAddrLen, and the dotted quads of one-character fields
\* followed by a slash and one or two more characters
AddrStrings ==
    UNION {[1..n -> AddrChars] : n \in 0..MaxAddrLen}
    \cup {<<q[1], ".", q[2], ".", q[3], ".", q[4], "/">> \o m :
            q \in [1..4 -> AddrChars], m \in [1..1 -> AddrChars] \cup [1..2 -> AddrChars]}

InitNetworkAddress ==
    /\ remote = World0
    /\ mutex = NoProc
    /\ proc = [p \in Procs |-> Idle]
    /\ faults = 0
    /\ dns = {}
    /\ submit = [p \in Procs |-> {}]
    /\ value \in AddrStrings
    /\ verdict = ""

\* the framework validates the attribute value
NetworkAddressValidate ==
    /\ verdict = ""
    /\ verdict' = NetworkAddressValidateString(value)
    /\ UNCHANGED <<remote, dns, mutex, proc, faults, submit, value>>

NextNetworkAddress == NetworkAddressValidate

SpecNetworkAddress == InitNetworkAddress /\ [][NextNetworkAddress]_vars

\* v is an IPv4 address in dotted decimal notation
IsIPv4Address(v) ==
    /\ \A i \in 1..Len(v) : v[i] \in {"0", "1", "2", "3", "4", "5", "6", "7", "8", "9", "."}
    /\ Len(Split(v, ".")) = 4
    /\ \A i \in 1..4 : LET f == Split(v, ".")[i] IN
          f # <<>> /\ Len(f) <= 3 /\ Decimal(f) <= 255

\* C14 as stated: a value is accepted if and only if it is an IPv4 address or a
\* CIDR block.
C14_AddressOrCidr ==
    verdict # "" => (verdict = "ok" <=> (IsIPv4Address(value) \/ ParseCIDROk(value)))

----------------------------------------------------------------------------
(* The algorithm validators of the IPsec connection schema.  The value is  *)
(* the configuration of the four algorithm attributes, the verdict holds   *)
(* one result per attribute.                                               *)

ValidatorAlgorithmErrUnsupported == "Unsupported algorithm"

encryptionSupportedTypes == {"AES128", "AES256", "CAMELLIA128", "CAMELLIA256"}

integritySupportedTypes == {"SHA1", "SHA256", "SHA384", "SHA512"}

\* the values the schema documents for the integrity algorithm attributes
IntegrityDocumented == {"SHA1", "SHA2-256", "SHA2-384", "SHA2-512"}

IntegrityAttrs == {"phase1_integrity_algorithm", "phase2_integrity_algorithm"}

EncryptionAttrs == {"phase1_encryption_algorithm", "phase2_encryption_algorithm"}

AlgorithmAttrs == IntegrityAttrs \cup EncryptionAttrs

\* integrityAlgorithmTypeValidator.ValidateString
IntegrityValidateString(v) ==
    IF v \notin integritySupportedTypes THEN ValidatorAlgorithmErrUnsupported ELSE "ok"

\* encryptionAlgorithmTypeValidator.ValidateString
EncryptionValidateString(v) ==
    IF v \notin encryptionSupportedTypes THEN ValidatorAlgorithmErrUnsupported ELSE "ok"

\* the validator the schema attaches to the attribute
AlgorithmValidateString(a, v) ==
    IF a \in IntegrityAttrs THEN IntegrityValidateString(v) ELSE EncryptionValidateString(v)

\* configuration values: the documented ones, the supported ones and others
AlgorithmValues(a) ==
    IF a \in IntegrityAttrs
    THEN IntegrityDocumented \cup integritySupportedTypes \cup {"MD5", "sha1", ""}
    ELSE encryptionSupportedTypes \cup {"DES", "aes128", ""}

AlgorithmConfigs == {c \in [AlgorithmAttrs -> UNION {AlgorithmValues(a) : a \in AlgorithmAttrs}] :
                        \A a \in AlgorithmAttrs : c[a] \in AlgorithmValues(a)}

InitAlgorithm ==
    /\ remote = World0
    /\ mutex = NoProc
    /\ proc = [p \in Procs |-> Idle]
    /\ faults = 0
    /\ dns = {}
    /\ submit = [p \in Procs |-> {}]
    /\ value \in AlgorithmConfigs
    /\ verdict = [a \in AlgorithmAttrs |-> ""]

\* the framework validates one attribute of the configuration
AlgorithmValidate ==
    \E a \in AlgorithmAttrs :
        /\ verdict[a] = ""
        /\ verdict' = [verdict EXCEPT ![a] = AlgorithmValidateString(a, value[a])]
        /\ UNCHANGED <<remote, dns, mutex, proc, faults, submit, value>>

NextAlgorithm == AlgorithmValidate

SpecAlgorithm == InitAlgorithm /\ [][NextAlgorithm]_vars

\* C15 as stated: for the phase 1 and phase 2 integrity algorithm, the validator
\* accepts exactly the values the schema documents as valid.
C15_DocumentedIntegrity ==
    \A a \in IntegrityAttrs :
        verdict[a] # "" => (verdict[a] = "ok" <=> value[a] \in IntegrityDocumented)

----------------------------------------------------------------------------
(* The user email validator.  It hands the value to the email verifier,    *)
(* which checks the syntax and then looks up the MX records of the domain. *)
(* In this harness the verdict is the sequence of the results of the       *)
(* successive validations of the same value.                               *)

MaxEmailLen == 5

MaxValidations == 2

EmailChars == {"a", "@", "."}

ValidatorUserEmailErrUnsupported == "Unsupported user email"

ValidatorUserEmailErrMalformed == "Malformed user email"

\* the local part of the verifier's address pattern: atoms separated by dots
EmailLocalOk(l) ==
    /\ l # <<>>
    /\ \A i \in 1..Len(l) : l[i] \in {"a", "."}
    /\ l[1] # "." /\ l[Len(l)] # "."
    /\ \A i \in 1..(Len(l) - 1) : ~(l[i] = "." /\ l[i + 1] = ".")

\* a label of the pattern's domain part: it starts and ends with a letter
EmailLabelOk(d) ==
    /\ d # <<>>
    /\ \A i \in 1..Len(d) : d[i] \in {"a", "."}
    /\ d[1] = "a" /\ d[Len(d)] = "a"

\* the domain part of the pattern: labels each followed by a dot, a top-level
\* label, an optional final dot
EmailDomainOk(d) ==
    LET e == IF d # <<>> /\ d[Len(d)] = "." THEN SubSeq(d, 1, Len(d) - 1) ELSE d IN
    \E k \in 1..Len(e) :
        /\ e[k] = "."
        /\ EmailLabelOk(SubSeq(e, 1, k - 1))
        /\ EmailLabelOk(SubSeq(e, k + 1, Len(e)))

\* Verifier.ParseAddress(v).Valid
EmailSyntaxValid(v) ==
    /\ Count(v, "@") = 1
    /\ LET k == CHOOSE i \in 1..Len(v) : v[i] = "@" IN
       /\ EmailLocalOk(SubSeq(v, 1, k - 1))
       /\ EmailDomainOk(SubSeq(v, k + 1, Len(v)))

\* Verifier.ParseAddress(v).Domain
EmailDomain(v) ==
    LET k == CHOOSE i \in 1..Len(v) : v[i] = "@" IN SubSeq(v, k + 1, Len(v))

\* the error of Verifier.Verify(v): none when the syntax is invalid (the lookup
\* is not made), else the error of the MX lookup of the domain
EmailVerifyErr(v, mx) ==
    EmailSyntaxValid(v) /\ EmailDomain(v) \notin mx

\* stringUserEmailValidator.ValidateString under the name service mx
EmailValidateString(v, mx) ==
    IF EmailVerifyErr(v, mx) THEN ValidatorUserEmailErrUnsupported
    ELSE IF ~EmailSyntaxValid(v) THEN ValidatorUserEmailErrMalformed
    ELSE "ok"

EmailStrings == UNION {[1..n -> EmailChars] : n \in 0..MaxEmailLen}

\* the domains some host may serve mail for
MxDomains == {<<"a", ".", "a">>, <<"a", "a", ".", "a">>, <<"a", ".", "a", "a">>}

InitEmail ==
    /\ remote = World0
    /\ dns \in SUBSET MxDomains
    /\ mutex = NoProc
    /\ proc = [p \in Procs |-> Idle]
    /\ faults = 0
    /\ submit = [p \in Procs |-> {}]
    /\ value \in EmailStrings
    /\ verdict = <<>>

\* the framework validates the attribute value
EmailValidate ==
    /\ Len(verdict) < MaxValidations
    /\ verdict' = Append(verdict, EmailValidateString(value, dns))
    /\ UNCHANGED <<remote, dns, mutex, proc, faults, submit, value>>

\* the mail configuration of some domain changes between two validations
DnsChange ==
    /\ \E mx \in SUBSET MxDomains : mx # dns /\ dns' = mx
    /\ UNCHANGED <<remote, mutex, proc, faults, submit, value, verdict>>

NextEmail == EmailValidate \/ DnsChange

SpecEmail == InitEmail /\ [][NextEmail]_vars

\* C16 as stated: the result of a validator depends on the value only, so two
\* validations of the same value give the same result in any environment.
C16_SameResult ==
    \A i, j \in 1..Len(verdict) : verdict[i] = verdict[j]

----------------------------------------------------------------------------
(* Model converters.  A pointer field of an API object is the empty        *)
(* sequence (nil) or a sequence of one value.  An int64 is a 64-bit        *)
(* two's-complement number written in three limbs:                         *)
(*   hi * 2^60 + mid * 2^30 + lo,  hi in 0..15, mid and lo in 0..2^30 - 1, *)
(* negative when hi >= 8.                                                  *)

HelperGbToBytes == 1073741824

Nil == <<>>

Ptr(v) == <<v>>

Int64(hi, mid, lo) == [hi |-> hi, mid |-> mid, lo |-> lo]

\* a + 1 on int64
Int64Inc(a) ==
    IF a.lo + 1 < HelperGbToBytes THEN [a EXCEPT !.lo = a.lo + 1]
    ELSE IF a.mid + 1 < HelperGbToBytes THEN [a EXCEPT !.lo = 0, !.mid = a.mid + 1]
    ELSE Int64((a.hi + 1) % 16, 0, 0)

\* a * HelperGbToBytes on int64: the 30 low bits are zero, the 4 high bits of
\* the product are lost
Int64MulGb(a) == Int64(a.mid % 16, a.lo, 0)

\* a division that keeps the 30 low bits of the quotient only
Int64DivGbNarrow(a) == Int64(0, 0, a.mid)

\* a / HelperGbToBytes on int64, which truncates toward zero
Int64DivGb(a) ==
    IF a.hi < 8 THEN Int64(0, a.hi, a.mid)
    ELSE LET floor == Int64(15, HelperGbToBytes - 16 + a.hi, a.mid)
         IN  IF a.lo = 0 THEN floor ELSE Int64Inc(floor)

\* types.StringPointerValue(p) when p is not nil, else types.StringValue(def)
StringOr(p, def) == IF p # Nil THEN p[1] ELSE def

\* komputeResourceToModel
komputeResourceToModel(d) ==
    [kind |-> "kompute",
     Name |-> d.Name,
     Description |-> Ptr(d.Desc),
     Vcpus |-> d.VCPUs,
     Memory |-> Int64MulGb(d.Memory),
     Disk |-> Int64MulGb(d.Disk),
     DataDisk |-> Ptr(Int64MulGb(d.ExtraDisk)),
     Ip |-> Ptr(d.IP)]

\* komputeModelToResource
komputeModelToResource(r) ==
    [kind |-> "kompute",
     Name |-> r.Name,
     Desc |-> StringOr(r.Description, ""),
     VCPUs |-> r.Vcpus,
     Memory |-> Int64DivGb(r.Memory),
     Disk |-> Int64DivGb(r.Disk),
     ExtraDisk |-> IF r.DataDisk # Nil THEN Int64DivGb(r.DataDisk[1]) ELSE Int64(0, 0, 0),
     IP |-> StringOr(r.Ip, "")]

KawaiiDefaultValueProtocol == "tcp"
KawaiiDefaultValueSource == "0.0.0.0/0"
KawaiiIPsecDefaultDpdTimeout == "240s"
KawaiiIPsecDefaultDpdAction == "restart"
KawaiiIPsecDefaultStartAction == "start"
KawaiiIPsecDefaultRekeyTime == "2h"
KawaiiIPsecDefaultPhaseLifetime == "1h"

\* kawaiiIPsecFirewallModel: one API rule per rule of the wire list
kawaiiIPsecFirewallModel(d) ==
    [i \in 1..Len(d.IngressRules) |->
        [Source |-> Ptr(d.IngressRules[i].Source),
         Protocol |-> Ptr(d.IngressRules[i].Protocol),
         Ports |-> d.IngressRules[i].Ports]]

\* kawaiiIPsecResourceModel
kawaiiIPsecResourceModel(d) ==
    [kind |-> "ipsec",
     Name |-> d.Name,
     Ip |-> Ptr(d.IP),
     Description |-> Ptr(d.Desc),
     RemoteIp |-> d.RemotePeer,
     DpdTimeoutAction |-> Ptr(d.DpdTimeoutAction),
     DpdTimeout |-> Ptr(d.DpdTimeout),
     StartAction |-> Ptr(d.StartAction),
     RekeyTime |-> Ptr(d.Rekey),
     Phase1Lifetime |-> Ptr(d.Phase1Lifetime),
     Phase1IntegrityAlgorithm |-> d.Phase1IntegrityAlgorithm,
     Phase2Lifetime |-> Ptr(d.Phase2Lifetime),
     Phase2IntegrityAlgorithm |-> d.Phase2IntegrityAlgorithm,
     Ingress |-> kawaiiIPsecFirewallModel(d)]

\* kawaiiIPsecModelToIngressRules: the null list of the wire model is the empty
\* sequence
kawaiiIPsecModelToIngressRules(r) ==
    [i \in 1..Len(r.Ingress) |->
        [Source |-> StringOr(r.Ingress[i].Source, KawaiiDefaultValueSource),
         Protocol |-> StringOr(r.Ingress[i].Protocol, KawaiiDefaultValueProtocol),
         Ports |-> r.Ingress[i].Ports]]

\* kawaiiIPsecModelToResource
kawaiiIPsecModelToResource(r) ==
    [kind |-> "ipsec",
     Name |-> r.Name,
     IP |-> StringOr(r.Ip, ""),
     RemotePeer |-> r.RemoteIp,
     Desc |-> StringOr(r.Description, ""),
     DpdTimeoutAction |-> StringOr(r.DpdTimeoutAction, KawaiiIPsecDefaultDpdTimeout),
     DpdTimeout |-> StringOr(r.DpdTimeout, KawaiiIPsecDefaultDpdAction),
     StartAction |-> StringOr(r.StartAction, KawaiiIPsecDefaultStartAction),
     Rekey |-> StringOr(r.RekeyTime, KawaiiIPsecDefaultRekeyTime),
     Phase1Lifetime |-> StringOr(r.Phase1Lifetime, KawaiiIPsecDefaultPhaseLifetime),
     Phase1IntegrityAlgorithm |-> r.Phase1IntegrityAlgorithm,
     Phase2Lifetime |-> StringOr(r.Phase2Lifetime, KawaiiIPsecDefaultPhaseLifetime),
     Phase2IntegrityAlgorithm |-> r.Phase2IntegrityAlgorithm,
     IngressRules |-> kawaiiIPsecModelToIngressRules(r)]

\* the converter of the resource type from the API model to the wire model
ModelToResource(r) ==
    IF r.kind = "kompute" THEN komputeModelToResource(r) ELSE kawaiiIPsecModelToResource(r)

\* the converter of the resource type from the wire model to the API model
ResourceToModel(d) ==
    IF d.kind = "kompute" THEN komputeResourceToModel(d) ELSE kawaiiIPsecResourceModel(d)

\* sizes in bytes: 0, 1 GiB, 1.5 GiB, 4 GiB
ByteSizes == {Int64(0, 0, 0), Int64(0, 1, 0), Int64(0, 1, 536870912), Int64(0, 4, 0)}

Optional(S) == {Nil} \cup {Ptr(v) : v \in S}

KomputeObjects ==
    [kind : {"kompute"}, Name : {"vm"}, Description : Optional({"web server"}), Vcpus : {2},
     Memory : ByteSizes, Disk : ByteSizes, DataDisk : Optional(ByteSizes),
     Ip : Optional({"10.0.0.1"})]

IngressObjects ==
    {<<>>} \cup {<<rule>> : rule \in [Source : Optional({"10.0.0.0/8"}),
                                      Protocol : Optional({"udp"}), Ports : {"500"}]}

KawaiiIpSecObjects ==
    [kind : {"ipsec"}, Name : {"vpn"}, Ip : Optional({"10.0.0.1"}),
     Description : {Nil}, RemoteIp : {"1.2.3.4"},
     DpdTimeoutAction : Optional({"clear"}), DpdTimeout : Optional({"30s"}),
     StartAction : Optional({"none"}), RekeyTime : Optional({"4h"}),
     Phase1Lifetime : Optional({"8h"}), Phase1IntegrityAlgorithm : {"SHA1"},
     Phase2Lifetime : Optional({"3h"}), Phase2IntegrityAlgorithm : {"SHA512"},
     Ingress : IngressObjects]

ApiObjects == KomputeObjects \cup KawaiiIpSecObjects

\* the value is an object returned by the API; the verdict collects the wire
\* model made of it and the API object made of that wire model
InitConverter ==
    /\ remote = World0
    /\ dns = {}
    /\ mutex = NoProc
    /\ proc = [p \in Procs |-> Idle]
    /\ faults = 0
    /\ submit = [p \in Procs |-> {}]
    /\ value \in ApiObjects
    /\ verdict = <<>>

\* a read converts the API object to the wire model
ConvertModelToResource ==
    /\ verdict = <<>>
    /\ verdict' = << ModelToResource(value) >>
    /\ UNCHANGED <<remote, dns, mutex, proc, faults, submit, value>>

\* an update converts the wire model back to an API object
ConvertResourceToModel ==
    /\ Len(verdict) = 1
    /\ verdict' = Append(verdict, ResourceToModel(verdict[1]))
    /\ UNCHANGED <<remote, dns, mutex, proc, faults, submit, value>>

NextConverter == ConvertModelToResource \/ ConvertResourceToModel

SpecConverter == InitConverter /\ [][NextConverter]_vars

\* the fields of the API object that the platform does not assign and that the
\* wire model carries
RequiredFields(kind) ==
    IF kind = "kompute" THEN {"Name", "Vcpus", "Memory", "Disk"}
    ELSE {"Name", "RemoteIp", "Phase1IntegrityAlgorithm", "Phase2IntegrityAlgorithm"}

OptionalFields(kind) ==
    IF kind = "kompute" THEN {"Description", "DataDisk", "Ip"}
    ELSE {"Ip", "Description", "DpdTimeoutAction", "DpdTimeout", "StartAction", "RekeyTime",
          "Phase1Lifetime", "Phase2Lifetime"}

\* C17 as stated: converting an API object to the wire model and back gives the
\* same object on every field that is set and is not assigned by the platform.
C17_RoundTrip ==
    Len(verdict) = 2 =>
        /\ \A f \in RequiredFields(value.kind) : verdict[2][f] = value[f]
        /\ \A f \in OptionalFields(value.kind) : value[f] # Nil => verdict[2][f] = value[f]

\* the default the schema documents for the optional attribute of the IPsec
\* connection, by the field of the wire model
SchemaDefault(f) ==
    CASE f = "DpdTimeout" -> KawaiiIPsecDefaultDpdTimeout
      [] f = "DpdTimeoutAction" -> KawaiiIPsecDefaultDpdAction
      [] f = "StartAction" -> KawaiiIPsecDefaultStartAction
      [] f = "Rekey" -> KawaiiIPsecDefaultRekeyTime
      [] f = "Phase1Lifetime" -> KawaiiIPsecDefaultPhaseLifetime
      [] f = "Phase2Lifetime" -> KawaiiIPsecDefaultPhaseLifetime

\* the field of the API object behind the field of the wire model
ApiField(f) == IF f = "Rekey" THEN "RekeyTime" ELSE f

\* C19 as stated: an optional field absent from the API object comes back in the
\* wire model as the default the schema documents for that attribute.
C19_DocumentedDefault ==
    (Len(verdict) >= 1 /\ value.kind = "ipsec") =>
        \A f \in {"DpdTimeout", "DpdTimeoutAction", "StartAction", "Rekey",
                  "Phase1Lifetime", "Phase2Lifetime"} :
            value[ApiField(f)] = Nil => verdict[1][f] = SchemaDefault(f)

----------------------------------------------------------------------------
(* Sizes in gigabytes at the API boundary.  The value is the int64 of the  *)
(* wire field (mem, disk, extra_disk, size, max_memory, max_storage); the  *)
(* verdict collects the bytes sent and the gigabytes read back.            *)

\* non-negative int64 values, small and around the powers 2^30, 2^33, 2^34, 2^60
GbValues ==
    {Int64(hi, mid, lo) : hi \in 0..7,
                          mid \in {0, 1, 7, 8, 15, 16, HelperGbToBytes - 1},
                          lo \in {0, 1, 4, HelperGbToBytes - 1}}

InitGb ==
    /\ remote = World0
    /\ dns = {}
    /\ mutex = NoProc
    /\ proc = [p \in Procs |-> Idle]
    /\ faults = 0
    /\ submit = [p \in Procs |-> {}]
    /\ value \in GbValues
    /\ verdict = <<>>

\* komputeResourceToModel: memSize := d.Memory.ValueInt64() * HelperGbToBytes
GbToBytes ==
    /\ verdict = <<>>
    /\ verdict' = << Int64MulGb(value) >>
    /\ UNCHANGED <<remote, dns, mutex, proc, faults, submit, value>>

\* komputeModelToResource: memSize := r.Memory / HelperGbToBytes
BytesToGb ==
    /\ Len(verdict) = 1
    /\ verdict' = Append(verdict, Int64DivGb(verdict[1]))
    /\ UNCHANGED <<remote, dns, mutex, proc, faults, submit, value>>

NextGb == GbToBytes \/ BytesToGb

SpecGb == InitGb /\ [][NextGb]_vars

\* C18 as stated: every non-negative g of the width of the wire field comes back
\* as g after the conversion to bytes and back.
C18_RoundTripAnyGb ==
    Len(verdict) = 2 => verdict[2] = value

\* g * 2^30 is at most 2^63 - 1, that is g < 2^33
FitsInBytes(g) == g.hi = 0 /\ g.mid < 8

\* C18, amended: every non-negative g whose size in bytes g * 2^30 is
\* representable in the signed 64-bit field of the API object comes back as g.
C18_RoundTripGb ==
    (Len(verdict) = 2 /\ FitsInBytes(value)) => verdict[2] = value

\* the largest such g, 2^33 - 1, has made the round trip
C18_Witness ==
    /\ Len(verdict) = 2
    /\ value = Int64(0, 7, HelperGbToBytes - 1)
    /\ verdict[1] = Int64(7, HelperGbToBytes - 1, 0)
    /\ verdict[2] = value

----------------------------------------------------------------------------
(* Collections in requests.  The value is the plan of a team, an adapter   *)
(* or a project with its list attributes in the order of the               *)
(* configuration; the verdict collects the API object that Create and      *)
(* Update send.                                                            *)

MaxListLen == 3

\* the position of the strings of the model in the order of sort.Strings
StringRank ==
    ("10.0.0.1" :> 1) @@ ("10.0.0.2" :> 2) @@ ("10.0.0.3" :> 3) @@ ("alice" :> 4) @@
    ("bob" :> 5) @@ ("carol" :> 6) @@ ("dev" :> 7) @@ ("eu" :> 8) @@ ("ops" :> 9) @@
    ("prod" :> 10) @@ ("qa" :> 11) @@ ("us" :> 12)

\* x inserted at its place in the sorted sequence s
RECURSIVE Insert(_, _)
Insert(x, s) ==
    IF s = <<>> THEN <<x>>
    ELSE IF StringRank[x] <= StringRank[Head(s)] THEN <<x>> \o s
    ELSE <<Head(s)>> \o Insert(x, Tail(s))

\* sort.Strings(s)
RECURSIVE SortStrings(_)
SortStrings(s) == IF s = <<>> THEN <<>> ELSE Insert(Head(s), SortStrings(Tail(s)))

\* teamResourceToModel
teamResourceToModel(d) ==
    [kind |-> "team", Name |-> d.Name, Users |-> SortStrings(d.Users)]

\* adapterResourceToModel
adapterResourceToModel(d) ==
    [kind |-> "adapter", Name |-> d.Name, Addresses |-> d.Addresses]

\* projectResourceToModel
projectResourceToModel(d) ==
    [kind |-> "project", Name |-> d.Name, Tags |-> d.Tags,
     Teams |-> SortStrings(d.Teams), Regions |-> SortStrings(d.Regions)]

\* the converter of the plan's resource type
PlanToModel(d) ==
    CASE d.kind = "team" -> teamResourceToModel(d)
      [] d.kind = "adapter" -> adapterResourceToModel(d)
      [] d.kind = "project" -> projectResourceToModel(d)

Lists(S, n) == UNION {[1..k -> S] : k \in 0..n}

CollectionPlans ==
    [kind : {"team"}, Name : {"core"}, Users : Lists({"alice", "bob", "carol"}, MaxListLen)]
    \cup [kind : {"adapter"}, Name : {"eth0"},
          Addresses : Lists({"10.0.0.1", "10.0.0.2", "10.0.0.3"}, MaxListLen)]
    \cup [kind : {"project"}, Name : {"acme"}, Tags : Lists({"dev", "prod"}, MaxListLen - 1),
          Teams : Lists({"ops", "qa"}, MaxListLen - 1), Regions : Lists({"eu", "us"}, MaxListLen - 1)]

InitRequest ==
    /\ remote = World0
    /\ dns = {}
    /\ mutex = NoProc
    /\ proc = [p \in Procs |-> Idle]
    /\ faults = 0
    /\ submit = [p \in Procs |-> {}]
    /\ value \in CollectionPlans
    /\ verdict = <<>>

\* Create and Update build the object of the request from the plan
BuildRequest ==
    /\ verdict = <<>>
    /\ verdict' = << PlanToModel(value) >>
    /\ UNCHANGED <<remote, dns, mutex, proc, faults, submit, value>>

NextRequest == BuildRequest

SpecRequest == InitRequest /\ [][NextRequest]_vars

IsSorted(s) == \A i \in 1..(Len(s) - 1) : StringRank[s[i]] <= StringRank[s[i + 1]]

\* the collection fields of the API object whose order has no meaning
UnorderedFields(kind) ==
    CASE kind = "team" -> {"Users"}
      [] kind = "adapter" -> {"Addresses"}
      [] kind = "project" -> {"Tags", "Teams", "Regions"}

\* C20 as stated: every collection of addresses, tags or member names is sorted
\* in the request, whatever its order in the plan.
C20_SortedCollections ==
    Len(verdict) = 1 => \A f \in UnorderedFields(value.kind) : IsSorted(verdict[1][f])

----------------------------------------------------------------------------
(* The state a resource's Update writes, and what Read makes of it *)

\* storageNfsResourceToModel: the region, the pool and the default flag are not part of
\* the request
storageNfsResourceToModel(d) ==
    [kind |-> "storage_nfs", Name |-> d.Name, Backends |-> SortStrings(d.Backends)]

\* storageNfsModelToResource
storageNfsModelToResource(r, d) == [d EXCEPT !.Name = r.Name, !.Backends = SortStrings(r.Backends)]

\* teamModelToResource
teamModelToResource(r, d) == [d EXCEPT !.Name = r.Name, !.Users = SortStrings(r.Users)]

\* the platform replaces the fields of entity e that the request m carries
UpdateEntity(e, m) ==
    IF m.kind = "team" THEN [e EXCEPT !.Name = m.Name, !.Users = m.Users]
    ELSE [e EXCEPT !.Name = m.Name, !.Backends = m.Backends]

\* StorageNfsResource.Update, TeamResource.Update when the call succeeds:
\* m := xResourceToModel(data); UpdateX(ctx, id).X(m).Execute(); resp.State.Set(ctx, &data)
ResourceUpdate(data, e) ==
    LET m == IF data.kind = "team" THEN teamResourceToModel(data)
             ELSE storageNfsResourceToModel(data)
    IN  [remote |-> UpdateEntity(e, m), state |-> data]

\* StorageNfsResource.Read, TeamResource.Read when the call succeeds:
\* ReadX(ctx, id).Execute(); xModelToResource(r, data); resp.State.Set(ctx, &data)
ResourceRead(data, e) ==
    IF data.kind = "team" THEN teamModelToResource(e, data)
    ELSE storageNfsModelToResource(e, data)

\* entities as the platform holds them: lists sorted, an NFS storage attached to a region
StoredEntities ==
    [kind : {"team"}, Name : {"core", "infra"},
     Users : {u \in Lists({"alice", "bob"}, MaxListLen - 1) : IsSorted(u)}]
    \cup [kind : {"storage_nfs"}, Name : {"share"},
          Backends : {b \in Lists({"10.0.0.1", "10.0.0.2"}, MaxListLen - 1) : IsSorted(b) /\ b # <<>>},
          Region : {"r1", "r2"}, Default : BOOLEAN]

\* the planned values of an update
UpdatePlans ==
    [kind : {"team"}, Name : {"core", "infra"}, Users : Lists({"alice", "bob"}, MaxListLen - 1)]
    \cup [kind : {"storage_nfs"}, Name : {"share", "data"},
          Backends : Lists({"10.0.0.1", "10.0.0.2"}, MaxListLen - 1) \ {<<>>},
          Region : {"r1", "r2"}, Default : BOOLEAN]

InitState ==
    /\ remote \in StoredEntities
    /\ mutex = NoProc
    /\ proc = [p \in Procs |-> Idle]
    /\ faults = 0
    /\ dns = {}
    /\ submit = [p \in Procs |-> {}]
    /\ value \in {d \in UpdatePlans : d.kind = remote.kind}
    /\ verdict = <<>>

\* the framework applies the plan
StateUpdate ==
    /\ verdict = <<>>
    /\ LET r == ResourceUpdate(value, remote) IN
          /\ remote' = r.remote
          /\ verdict' = <<r.state>>
    /\ UNCHANGED <<dns, mutex, proc, faults, submit, value>>

\* the framework refreshes the state that the update wrote
StateRead ==
    /\ Len(verdict) = 1
    /\ verdict' = Append(verdict, ResourceRead(verdict[1], remote))
    /\ UNCHANGED <<remote, dns, mutex, proc, faults, submit, value>>

NextState == StateUpdate \/ StateRead

SpecState == InitState /\ [][NextState]_vars

\* the attributes of the state that the update request does not transmit
Untransmitted(kind) == IF kind = "storage_nfs" THEN {"Region", "Default"} ELSE {}

\* the attributes of the state whose value is a list without order
ListAttributes(kind) == IF kind = "storage_nfs" THEN {"Backends"} ELSE {"Users"}

\* C24: after a successful update every attribute written to state has the value the
\* remote entity holds (lists compared without their order); an attribute the request does
\* not transmit is not recorded as changed
C24_StateIsRemote ==
    Len(verdict) >= 1 =>
        \A a \in DOMAIN remote :
            IF a \in ListAttributes(remote.kind)
            THEN SortStrings(verdict[1][a]) = SortStrings(remote[a])
            ELSE verdict[1][a] = remote[a]

\* C25: a read right after a successful update leaves every attribute of the state unchanged
C25_ReadFixedPoint == Len(verdict) = 2 => verdict[2] = verdict[1]

----------------------------------------------------------------------------
(* SubnetDataSource.Read: lookup of one subnet by name or by application *)

MaxSubnets == 2

SubnetDataSourceErrTooFewArguments == "either 'name' or 'app' field is required"
SubnetDataSourceErrTooManyArguments == "one can't ask for both name and app fields"

\* the loop over the listed subnets from position i on, every ReadSubnet succeeding:
\* both comparisons are made on every subnet, whichever argument was given
RECURSIVE SubnetDataSourceScan(_, _, _)
SubnetDataSourceScan(data, subnets, i) ==
    IF i > Len(subnets) THEN data
    ELSE LET r == subnets[i] IN
         IF r.Name = data.Name
         THEN [data EXCEPT !.ID = r.Id,
                           !.App = IF r.Application # Nil THEN r.Application[1] ELSE ""]
         ELSE IF r.Application # Nil /\ r.Application[1] = data.App
         THEN [data EXCEPT !.ID = r.Id, !.Name = r.Name]
         ELSE SubnetDataSourceScan(data, subnets, i + 1)

\* SubnetDataSource.Read when ListSubnets and every ReadSubnet succeed
SubnetDataSourceRead(data, subnets) ==
    IF data.Name = "" /\ data.App = ""
    THEN [diags |-> <<SubnetDataSourceErrTooFewArguments>>, set |-> FALSE, state |-> data]
    ELSE IF data.Name # "" /\ data.App # ""
    THEN [diags |-> <<SubnetDataSourceErrTooManyArguments>>, set |-> FALSE, state |-> data]
    ELSE [diags |-> <<>>, set |-> TRUE, state |-> SubnetDataSourceScan(data, subnets, 1)]

\* subnets of the platform: the name is mandatory, the application an optional string
SubnetWorlds ==
    UNION {{w \in [1..n -> [Id : {"s1", "s2", "s3"}, Name : {"front", "back"},
                            Application : {Nil, Ptr(""), Ptr("user")}]] :
               \A i \in 1..n : w[i].Id = <<"s1", "s2", "s3">>[i]} : n \in 0..MaxSubnets}

SubnetQueries == [ID : {""}, Name : {"", "front"}, App : {"", "user"}]

InitSubnetDs ==
    /\ remote \in SubnetWorlds
    /\ mutex = NoProc
    /\ proc = [p \in Procs |-> Idle]
    /\ faults = 0
    /\ dns = {}
    /\ submit = [p \in Procs |-> {}]
    /\ value \in SubnetQueries
    /\ verdict = <<>>

SubnetDsRead ==
    /\ verdict = <<>>
    /\ verdict' = <<SubnetDataSourceRead(value, remote)>>
    /\ UNCHANGED <<remote, dns, mutex, proc, faults, submit, value>>

NextSubnetDs == SubnetDsRead

SpecSubnetDs == InitSubnetDs /\ [][NextSubnetDs]_vars

\* C26: the identifier a subnet lookup returns is that of a subnet whose name equals the
\* requested name (lookup by name), or whose application equals the requested application
\* (lookup by application)
C26_MatchesCriterion ==
    (verdict # <<>> /\ verdict[1].set /\ verdict[1].state.ID # "")
        => \E i \in 1..Len(remote) :
              /\ remote[i].Id = verdict[1].state.ID
              /\ (value.Name # "" => remote[i].Name = value.Name)
              /\ (value.App # "" => remote[i].Application = Ptr(value.App))

----------------------------------------------------------------------------
(* API objects whose optional fields are absent *)

ProjectDefaultValueMaxInstances == 0

\* the outcome of dereferencing a nil pointer: the goroutine panics, the handler returns
\* neither a state nor a diagnostic
Panic == [outcome |-> "panic", data |-> <<>>]

\* the handler returns with resp.State.Set(ctx, &data)
StateWritten(d) == [outcome |-> "state", data |-> d]

\* the handler returns with an error diagnostic
Diagnosed(msg) == [outcome |-> "diagnostic", data |-> msg]

\* kaktusModelToResource: r.CpuCost and r.MemoryCost are dereferenced without a nil check
kaktusModelToResource(r) ==
    IF r.CpuCost = Nil \/ r.MemoryCost = Nil THEN Panic
    ELSE StateWritten([Name |-> r.Name, Desc |-> StringOr(r.Description, ""),
                       CpuPrice |-> r.CpuCost[1].Price, Currency |-> r.CpuCost[1].Currency,
                       MemoryPrice |-> r.MemoryCost[1].Price])

\* projectModelToResource: r.Quotas is dereferenced without a nil check, its fields are checked
projectModelToResource(r) ==
    IF r.Quotas = Nil THEN Panic
    ELSE StateWritten([Name |-> r.Name, Desc |-> StringOr(r.Description, ""),
                       MaxInstances |-> IF r.Quotas[1].Instances # Nil
                                        THEN r.Quotas[1].Instances[1]
                                        ELSE ProjectDefaultValueMaxInstances])

\* getKawaiiID on the answer t of ReadKawaii: of the direct lookup when it succeeds (direct),
\* else of the read of the one listed Kawaii; *kawaii.Id and *t.Name are dereferenced
\* without a nil check
getKawaiiID(id, t, direct) ==
    IF direct
    THEN IF t.Id = Nil THEN Panic ELSE StateWritten(t.Id[1])
    ELSE IF t.Name = Nil THEN Panic
    ELSE IF t.Name[1] = id
         THEN IF t.Id = Nil THEN Panic ELSE StateWritten(t.Id[1])
         ELSE Diagnosed(ErrorUnknown("kawaii"))

\* objects that a successful call may return: every pointer-valued field present or absent
Costs == [Price : {1, 2}, Currency : {"EUR"}]

ReturnedObjects ==
    [kind : {"kaktus"}, Name : {"k1"}, Description : Optional({"node", "spare"}),
     CpuCost : Optional(Costs), MemoryCost : Optional(Costs)]
    \cup [kind : {"project"}, Name : {"acme"}, Description : Optional({"main", "lab"}),
          Quotas : Optional([Instances : Optional({1, 2})])]
    \cup [kind : {"kawaii"}, Id : Optional({"k1"}), Name : Optional({"gw", "edge"}),
          ref : {"k1", "gw"}, direct : BOOLEAN]

InitReturned ==
    /\ remote = World0
    /\ mutex = NoProc
    /\ proc = [p \in Procs |-> Idle]
    /\ faults = 0
    /\ dns = {}
    /\ submit = [p \in Procs |-> {}]
    /\ value \in ReturnedObjects
    /\ verdict = <<>>

\* KaktusResource.Read after ReadKaktus has succeeded
KaktusResourceRead ==
    /\ verdict = <<>>
    /\ value.kind = "kaktus"
    /\ verdict' = <<kaktusModelToResource(value)>>
    /\ UNCHANGED <<remote, dns, mutex, proc, faults, submit, value>>

\* ProjectResource.Read after ReadProject has succeeded
ProjectResourceRead ==
    /\ verdict = <<>>
    /\ value.kind = "project"
    /\ verdict' = <<projectModelToResource(value)>>
    /\ UNCHANGED <<remote, dns, mutex, proc, faults, submit, value>>

\* a handler of a Kawaii child resource resolving its parent
KawaiiResolve ==
    /\ verdict = <<>>
    /\ value.kind = "kawaii"
    /\ verdict' = <<getKawaiiID(value.ref, value, value.direct)>>
    /\ UNCHANGED <<remote, dns, mutex, proc, faults, submit, value>>

NextReturned == KaktusResourceRead \/ ProjectResourceRead \/ KawaiiResolve

SpecReturned == InitReturned /\ [][NextReturned]_vars

\* C28: converting an API object that a successful call returned, and resolving an
\* identifier, ends with state written or with an error diagnostic, never with a crash,
\* whichever optional fields of the object are absent
C28_NoCrash == verdict # <<>> => verdict[1].outcome \in {"state", "diagnostic"}

====
